---------------------------- MODULE Spec2Model ----------------------------
(***************************************************************************)
(* Model of fplint's model reconciliation (src/src/fplint/model/patcher.py *)
(* and its older twin src/src/fplint/factory.py): the attribute-wise merge *)
(* of two partially specified objects, the component loader's port-array   *)
(* expansion and the topology loader's target-port synthesis; and of the   *)
(* check engine (src/src/fplint/check.py, checks/check.py, config.py,      *)
(* load.py, main.py) and the checks of src/src/fplint/checks.              *)
(***************************************************************************)
EXTENDS Integers, Sequences, FiniteSets, TLC

VARIABLES
    pc,         \* position of the modelled run
    amalgam,    \* merge: the authoritative object, mutated in place
    traits,     \* merge: the supplement object
    amalgam0,   \* merge: the authoritative object as passed in (history)
    raised,     \* TRUE once InconsistencyException has been raised
    comp,       \* component loader: the Component's __dict__ without its ports
    heap,       \* component loader: object id -> Port attributes
    ports,      \* component loader: comp.get_ports(), a list of object ids
    probe,      \* component loader: list position whose target was set, or 0
    xml,        \* topology loader: the parsed XML documents
    model,      \* topology loader: the Topology's component list
    args,       \* check engine: the inputs of the modelled call
    ix,         \* check engine: position of the running loop in its list
    all_clear,  \* run_all: all_clear
    success,    \* main: success
    result,     \* a check's CheckResult: result.problems
    log,        \* what has run so far, in order (history)
    ret         \* the value returned, or the way the call ended

\* the state of the model loaders, and the state of the check engine
loaderVars == <<amalgam, traits, amalgam0, raised, comp, heap, ports, probe, xml>>
engineVars == <<args, ix, all_clear, success, result, log, ret>>

vars == <<pc, loaderVars, model, engineVars>>

---------------------------------------------------------------------------
(* Bounds of the model.                                                    *)

\* longest port list of a component operand of a stand-alone merge
MaxPorts == 2
\* largest max_number a component XML declares for a port
MaxCount == 2
\* most ports a component XML declares
MaxDecl == 2
\* most connections a topology XML declares
MaxConns == 2

---------------------------------------------------------------------------
(* Python values.  Every value is a record of one shape: k is the Python   *)
(* type, s the characters of a str (or the elements of a list), n the      *)
(* number of an int or bool.  A str is the sequence of its characters, so  *)
(* that lower() and endswith() are computed and not assumed.               *)

NoneV == [k |-> "none", s |-> <<>>, n |-> 0]
PyStr(chars) == [k |-> "str", s |-> chars, n |-> 0]
PyInt(i) == [k |-> "int", s |-> <<>>, n |-> i]
PyBool(b) == [k |-> "bool", s |-> <<>>, n |-> IF b THEN 1 ELSE 0]
PyList(elems) == [k |-> "list", s |-> elems, n |-> 0]

IsNone(v) == v.k = "none"
IsStr(v) == v.k = "str"

\* str.lower(), character by character
LowerChar(c) ==
    CASE c = "A" -> "a"
      [] c = "B" -> "b"
      [] c = "I" -> "i"
      [] c = "K" -> "k"
      [] c = "N" -> "n"
      [] c = "O" -> "o"
      [] c = "T" -> "t"
      [] c = "U" -> "u"
      [] OTHER -> c
Lower(chars) == [i \in 1..Len(chars) |-> LowerChar(chars[i])]

\* str.endswith(suffix)
EndsWith(chars, suffix) ==
    /\ Len(suffix) <= Len(chars)
    /\ SubSeq(chars, Len(chars) - Len(suffix) + 1, Len(chars)) = suffix

\* Python's ==.  bool is a subclass of int: True == 1 and False == 0.
PyEq(a, b) ==
    IF a.k \in {"int", "bool"} /\ b.k \in {"int", "bool"}
    THEN a.n = b.n
    ELSE a = b

\* Python's "not value"
PyNot(v) ==
    CASE v.k = "none" -> TRUE
      [] v.k = "str" -> Len(v.s) = 0
      [] v.k = "list" -> Len(v.s) = 0
      [] OTHER -> v.n = 0

\* getattr(obj, attr, None) on an object given as its __dict__
GetAttr(obj, attr) == IF attr \in DOMAIN obj THEN obj[attr] ELSE NoneV

\* no call of the check engine is in progress
EngineIdle ==
    /\ args = <<>>
    /\ ix = 0
    /\ all_clear = TRUE
    /\ success = TRUE
    /\ result = <<>>
    /\ log = <<>>
    /\ ret = NoneV

\* no model is being loaded
LoaderIdle ==
    /\ amalgam = <<>>
    /\ traits = <<>>
    /\ amalgam0 = <<>>
    /\ raised = FALSE
    /\ comp = <<>>
    /\ heap = <<>>
    /\ ports = <<>>
    /\ probe = 0
    /\ xml = <<>>

---------------------------------------------------------------------------
(* __merge_object_model, one attribute.                                    *)

\* attr.endswith("__xml_filename") over the attribute names of Port and Component
IsXmlFilenameAttr(attr) == attr \in {"_Port__xml_filename", "_Component__xml_filename"}

\* line 183: the amalgam's value counts as missing
AmalgamEmpty(av) ==
    \/ IsNone(av)
    \/ PyEq(av, PyStr(<<>>))
    \/ (av.k = "list" /\ Len(av.s) = 0)
    \/ PyNot(av)

\* line 185: a qualified type name on the amalgam, a short one on the traits
PtypeSuffix(attr, av, tv) ==
    /\ attr = "_Port__ptype"
    /\ EndsWith(av.s, tv.s)

\* a merge that takes any second value for a populated attribute as a
\* conflict, equal or not
MutOutcomeRaisesOnPresent(attr, av, tv) ==
    IF IsNone(tv) THEN "keep"
    ELSE IF IsXmlFilenameAttr(attr) THEN "set"
    ELSE IF IsStr(av) /\ IsStr(tv) /\ Lower(av.s) = Lower(tv.s) THEN "set"
    ELSE IF AmalgamEmpty(av) THEN "set"
    ELSE IF PtypeSuffix(attr, av, tv) THEN "keep"
    ELSE IF attr = "_Component__modeler" THEN "keep"
    ELSE IF ~IsNone(av) THEN "raise"
    ELSE "set"

\* What the if/elif chain of lines 165-191 does with one attribute other than
\* the port list: "keep" (continue), "set" (fall through to setattr) or "raise".
AttrOutcome(attr, av, tv) ==
    IF IsNone(tv) THEN "keep"
    ELSE IF IsXmlFilenameAttr(attr) THEN "set"
    ELSE IF IsStr(av) /\ IsStr(tv) /\ Lower(av.s) = Lower(tv.s) THEN "set"
    ELSE IF AmalgamEmpty(av) THEN "set"
    ELSE IF PtypeSuffix(attr, av, tv) THEN "keep"
    ELSE IF attr = "_Component__modeler" THEN "keep"
    ELSE IF ~IsNone(av) /\ ~PyEq(tv, av) THEN "raise"
    ELSE "set"

\* line 161: the attributes the loop visits
MergeAttrs(a, t) == DOMAIN a \cup DOMAIN t

OutcomeOf(a, t, attr) == AttrOutcome(attr, GetAttr(a, attr), GetAttr(t, attr))

\* the attributes at which the loop raises
RaisingAttrs(a, t) == {attr \in MergeAttrs(a, t) : OutcomeOf(a, t, attr) = "raise"}

\* The amalgam's __dict__ after the loop has visited the attributes in done
\* (line 191 for each of them that falls through to setattr).
ApplyAttrs(a, t, done) ==
    LET set == {attr \in done : OutcomeOf(a, t, attr) = "set"}
    IN  [attr \in DOMAIN a \cup set |-> IF attr \in set THEN t[attr] ELSE a[attr]]

\* merge of two objects without a port list (two Ports): whether it raises, and
\* the amalgam when it does not
ObjRaises(a, t) == RaisingAttrs(a, t) # {}
ObjMerged(a, t) == ApplyAttrs(a, t, MergeAttrs(a, t))

\* The loop visits a set, in an order Python does not fix: when it raises, the
\* attributes visited before are any set of attributes that do not raise.
ObjPartial(a, t) ==
    {ApplyAttrs(a, t, done) : done \in SUBSET (MergeAttrs(a, t) \ RaisingAttrs(a, t))}

---------------------------------------------------------------------------
(* __merge_object_model on Components: the port list.  A Component is     *)
(* [attrs, ports]: its __dict__ without the port list, and the port list   *)
(* _Component__port_obj_list as a sequence of Port __dict__s.  A Port is   *)
(* the same record with an empty port list, which the loop never visits.   *)

Name(p) == GetAttr(p, "_Port__pname")
SourceNum(p) == GetAttr(p, "_Port__source_num")

Min(S) == CHOOSE x \in S : \A y \in S : x <= y

\* a lookup that takes the first port of that name, whatever its index
MutPortByNameIgnoresIndex(plist, name, index) ==
    LET named == {i \in 1..Len(plist) : PyEq(Name(plist[i]), name)}
    IN  IF named = {} THEN 0 ELSE Min(named)

\* get_port_by_name: the position of the first port with that name and that
\* index in the list, 0 for None
PortByName(plist, name, index) ==
    LET named == {i \in 1..Len(plist) : PyEq(Name(plist[i]), name)}
        ofIndex == {i \in named : PyEq(SourceNum(plist[i]), index)}
    IN  IF named = {} THEN 0
        ELSE IF ofIndex = {} THEN 0
        ELSE Min(ofIndex)

\* lines 169-170: the traits' port an amalgam port is merged with, 0 for None
TraitPort(tports, port) == PortByName(tports, Name(port), SourceNum(port))

\* lines 169-173: the positions of the amalgam's ports whose merge raises
RaisingPorts(aports, tports) ==
    {i \in 1..Len(aports) :
        /\ TraitPort(tports, aports[i]) # 0
        /\ ObjRaises(aports[i], tports[TraitPort(tports, aports[i])])}

\* lines 169-173 run to the end: every amalgam port merged with its trait port
MergedPorts(aports, tports) ==
    [i \in 1..Len(aports) |->
        IF TraitPort(tports, aports[i]) = 0 THEN aports[i]
        ELSE ObjMerged(aports[i], tports[TraitPort(tports, aports[i])])]

\* lines 174-176: the traits' ports the amalgam does not have are appended
NewPorts(aports, tports) ==
    LET Absent(p) == PortByName(aports, Name(p), SourceNum(p)) = 0
    IN  SelectSeq(tports, Absent)

\* lines 168-177: the port list after the branch has run without raising
MergedPortList(aports, tports) ==
    MergedPorts(aports, tports) \o NewPorts(MergedPorts(aports, tports), tports)

\* lines 169-173 stopped by the exception at port f: the ports before it are
\* merged, port f has any of its attributes that do not raise merged
PartialPortLists(aports, tports) ==
    IF RaisingPorts(aports, tports) = {} THEN {}
    ELSE LET f == Min(RaisingPorts(aports, tports))
             tp == tports[TraitPort(tports, aports[f])]
         IN  {[i \in 1..Len(aports) |->
                 IF i < f THEN MergedPorts(aports, tports)[i]
                 ELSE IF i = f THEN pf
                 ELSE aports[i]] : pf \in ObjPartial(aports[f], tp)}

\* __merge_object_model(amalgam, traits) raises InconsistencyException
MergeRaises(a, t) ==
    \/ ObjRaises(a.attrs, t.attrs)
    \/ RaisingPorts(a.ports, t.ports) # {}

\* the amalgam after __merge_object_model(amalgam, traits) has returned
Merged(a, t) ==
    [attrs |-> ObjMerged(a.attrs, t.attrs),
     ports |-> MergedPortList(a.ports, t.ports)]

\* The amalgam after __merge_object_model(amalgam, traits) has raised: the
\* attributes visited before the raising one are any of those that do not
\* raise; the port list is untouched, merged, or stopped at its raising port.
MergePartial(a, t) ==
    {[attrs |-> at, ports |-> pl] :
        at \in ObjPartial(a.attrs, t.attrs),
        pl \in PartialPortLists(a.ports, t.ports)
                \cup (IF ObjRaises(a.attrs, t.attrs)
                      THEN {a.ports} \cup
                           (IF RaisingPorts(a.ports, t.ports) = {}
                            THEN {MergedPortList(a.ports, t.ports)} ELSE {})
                      ELSE {})}

---------------------------------------------------------------------------
(* Port objects and __component_loader: port-array expansion (lines        *)
(* 137-146) and the merge of every port with its port-type specification   *)
(* (lines 148-154).  Ports live in a heap, object id -> __dict__, so that  *)
(* a copy and an alias differ.                                             *)

\* Port(pname, ptype, direction, ..., comment=..., max_number=...): the
\* attributes of a fresh Port object the model follows
NewPort(pname, ptype, direction, comment, max_number) ==
    [_Port__pname |-> pname, _Port__ptype |-> ptype, _Port__direction |-> direction,
     _Port__comment |-> comment, _Port__max_number |-> max_number,
     _Port__source_num |-> NoneV,
     _Port__target_comp |-> NoneV, _Port__target_port |-> NoneV,
     _Port__target_type |-> NoneV, _Port__target_num |-> NoneV,
     _Port__target_direction |-> NoneV]

\* int(x) for an int or a string of one decimal digit
DigitValue(c) ==
    CASE c = "0" -> 0 [] c = "1" -> 1 [] c = "2" -> 2 [] c = "3" -> 3
      [] c = "4" -> 4 [] c = "5" -> 5 [] c = "6" -> 6 [] c = "7" -> 7
      [] c = "8" -> 8 [] c = "9" -> 9
ToInt(v) == IF v.k = "str" THEN DigitValue(v.s[1]) ELSE v.n

\* str(n) for 0 <= n <= 9, the way a component XML writes max_number
Digit(n) ==
    CASE n = 0 -> "0" [] n = 1 -> "1" [] n = 2 -> "2" [] n = 3 -> "3"
      [] n = 4 -> "4" [] n = 5 -> "5" [] n = 6 -> "6" [] n = 7 -> "7"
      [] n = 8 -> "8" [] n = 9 -> "9"

\* an expansion that appends the declared object itself in place of a copy
MutDeepCopyAlias(h, id) == [heap |-> h, id |-> id]

\* copy.deepcopy(port): a new object with the same attribute values
DeepCopy(h, id) == [heap |-> Append(h, h[id]), id |-> Len(h) + 1]

\* lines 139-146.  st is [heap, appendables]; d walks comp.get_ports(), i is
\* the inner loop's index, 0 before the port's set_source_num(0).
RECURSIVE ExpandFrom(_, _, _, _)
ExpandFrom(st, decl, d, i) ==
    IF d > Len(decl) THEN st
    ELSE IF i = 0
    THEN ExpandFrom([st EXCEPT !.heap[decl[d]]["_Port__source_num"] = PyInt(0)],
                    decl, d, 1)
    ELSE IF i >= ToInt(st.heap[decl[d]]["_Port__max_number"])
    THEN ExpandFrom(st, decl, d + 1, 0)
    ELSE LET c == DeepCopy(st.heap, decl[d])
         IN  ExpandFrom([heap |-> [c.heap EXCEPT ![c.id]["_Port__source_num"] = PyInt(i)],
                         appendables |-> Append(st.appendables, c.id)],
                        decl, d, i + 1)

\* lines 138-146: the heap and comp.get_ports() after the expansion
Expanded(h, decl) ==
    LET st == ExpandFrom([heap |-> h, appendables |-> <<>>], decl, 1, 0)
    IN  [heap |-> st.heap, ports |-> decl \o st.appendables]

\* line 149: port_objs[port.get_type()], the specification of the port's type
PortSpecOf(portObjs, port) == portObjs[port["_Port__ptype"].s]

\* lines 148-154: the ports of the list, in order, merged with their type's
\* specification; stops at the first merge that raises
RECURSIVE MergePortSpecs(_, _, _, _)
MergePortSpecs(h, plist, portObjs, i) ==
    IF i > Len(plist) THEN [heap |-> h, raised |-> FALSE]
    ELSE IF ObjRaises(h[plist[i]], PortSpecOf(portObjs, h[plist[i]]))
    THEN [heap |-> h, raised |-> TRUE]
    ELSE MergePortSpecs(
            [h EXCEPT ![plist[i]] = ObjMerged(h[plist[i]], PortSpecOf(portObjs, h[plist[i]]))],
            plist, portObjs, i + 1)

\* lines 133-135: the loaded specification's kind2 is the XML's kind, its kind
\* the XML's name, and it has no name
KindRewritten(attrs) ==
    [attrs EXCEPT !["_Component__kind2"] = attrs["_Component__kind"],
                  !["_Component__kind"] = attrs["_Component__name"],
                  !["_Component__name"] = NoneV]

\* __component_loader on the component CompFactory created (its __dict__
\* attrs, its ports the objects of h in the order of the list decl):
\* [attrs, heap, ports, raised]
ComponentLoaded(attrs, h, decl, portObjs) ==
    LET ex == Expanded(h, decl)
        mg == MergePortSpecs(ex.heap, ex.ports, portObjs, 1)
    IN  [attrs |-> KindRewritten(attrs), heap |-> mg.heap, ports |-> ex.ports,
         raised |-> mg.raised]

---------------------------------------------------------------------------
(* The stand-alone merge: the operands are drawn from bounded sets, then   *)
(* __merge_object_model runs once.                                         *)

\* values of a port's data type name: unset, empty, short, other case,
\* dot- and colon-qualified, a longer name with the same ending, another name
PtypeValues ==
    {NoneV, PyStr(<<>>), PyStr(<<"T">>), PyStr(<<"t">>), PyStr(<<"N", ".", "T">>),
     PyStr(<<"N", ":", "T">>), PyStr(<<"N", "T">>), PyStr(<<"U">>)}
\* values of a free-text attribute
CommentValues == {NoneV, PyStr(<<>>), PyStr(<<"a">>), PyStr(<<"A">>), PyStr(<<"b">>)}
\* values of the originating file path
FileValues == {NoneV, PyStr(<<"a">>), PyStr(<<"b">>)}
\* values of the modeler tag
ModelerValues == {NoneV, PyBool(FALSE), PyBool(TRUE)}
\* values of a list attribute
ListValues == {NoneV, PyList(<<>>), PyList(<<"a">>), PyList(<<"b">>)}
\* values of a numeric attribute
NumberValues == {NoneV, PyInt(0), PyInt(1), PyInt(2)}

\* Port operands
MergePortOperands ==
    {[attrs |-> [_Port__ptype |-> ty, _Port__comment |-> co, _Port__xml_filename |-> fi],
      ports |-> <<>>] :
        ty \in PtypeValues, co \in CommentValues, fi \in FileValues}

\* Component operands without ports
MergeCompOperands ==
    {[attrs |-> [_Component__modeler |-> mo, _Component__commands |-> li,
                 _Component__base_id |-> nu],
      ports |-> <<>>] :
        mo \in ModelerValues, li \in ListValues, nu \in NumberValues}

\* the ports of Component operands: three (name, index) keys, and for one of
\* them several declarations of the type
KeyedPorts ==
    {[_Port__pname |-> PyStr(<<"a">>), _Port__source_num |-> PyInt(0), _Port__ptype |-> ty] :
        ty \in {NoneV, PyStr(<<"T">>), PyStr(<<"U">>)}}
    \cup {[_Port__pname |-> PyStr(k[1]), _Port__source_num |-> PyInt(k[2]),
           _Port__ptype |-> PyStr(<<"T">>)] : k \in {<<(<<"a">>), 1>>, <<(<<"b">>), 0>>}}

PortLists == UNION {[1..n -> KeyedPorts] : n \in 0..MaxPorts}

\* Component operands with ports
MergePortListOperands ==
    {[attrs |-> [_Component__kind |-> PyStr(<<"K">>)], ports |-> pl] : pl \in PortLists}

InitMerge ==
    /\ pc = "start"
    /\ \E a, t \in MergePortOperands \cup MergeCompOperands \cup MergePortListOperands :
          \* line 160: assert type(amalgam) == type(traits)
          /\ DOMAIN a.attrs = DOMAIN t.attrs
          /\ amalgam = a
          /\ traits = t
          /\ amalgam0 = a
    /\ raised = FALSE
    /\ comp = <<>>
    /\ heap = <<>>
    /\ ports = <<>>
    /\ probe = 0
    /\ EngineIdle
    /\ xml = <<>>
    /\ model = <<>>

\* __merge_object_model(amalgam, traits) returns
MergeReturns ==
    /\ pc = "start"
    /\ ~MergeRaises(amalgam, traits)
    /\ amalgam' = Merged(amalgam, traits)
    /\ pc' = "done"
    /\ UNCHANGED <<engineVars, traits, amalgam0, raised, comp, heap, ports, probe, xml, model>>

\* __merge_object_model(amalgam, traits) raises InconsistencyException
MergeFails ==
    /\ pc = "start"
    /\ MergeRaises(amalgam, traits)
    /\ amalgam' \in MergePartial(amalgam, traits)
    /\ raised' = TRUE
    /\ pc' = "done"
    /\ UNCHANGED <<engineVars, traits, amalgam0, comp, heap, ports, probe, xml, model>>

NextMerge == MergeReturns \/ MergeFails

SpecMerge == InitMerge /\ [][NextMerge]_vars

---------------------------------------------------------------------------
(* Vocabulary of the merge contract, stated without the merge operators.   *)

\* a value that is present and non-empty
HasValue(v) ==
    CASE v.k = "none" -> FALSE
      [] v.k = "str" -> v.s # <<>>
      [] v.k = "list" -> v.s # <<>>
      [] OTHER -> v.n # 0

\* two strings equal ignoring case
CaseEqual(av, tv) == av.k = "str" /\ tv.k = "str" /\ Lower(av.s) = Lower(tv.s)

\* long is short with a dot- or colon-terminated qualifier in front of it
QualifiedSuffix(long, short) ==
    /\ long.k = "str" /\ short.k = "str"
    /\ short.s # <<>>
    /\ Len(short.s) < Len(long.s)
    /\ SubSeq(long.s, Len(long.s) - Len(short.s) + 1, Len(long.s)) = short.s
    /\ long.s[Len(long.s) - Len(short.s)] \in {".", ":"}

\* the originating file path and the modeler tag
Bookkeeping(attr) ==
    attr \in {"_Port__xml_filename", "_Component__xml_filename", "_Component__modeler"}

\* the two values disagree beyond what the tolerance rules reconcile
Conflict(attr, av, tv) ==
    /\ HasValue(av) /\ HasValue(tv)
    /\ av # tv
    /\ ~CaseEqual(av, tv)
    /\ ~(attr = "_Port__ptype" /\ (QualifiedSuffix(av, tv) \/ QualifiedSuffix(tv, av)))
    /\ ~Bookkeeping(attr)

PortKey(p) == <<GetAttr(p, "_Port__pname"), GetAttr(p, "_Port__source_num")>>
KeySet(plist) == {PortKey(plist[i]) : i \in 1..Len(plist)}

\* the supplement port an authoritative port is matched with: the first one
\* with its (name, index); 0 when there is none
Match(tports, port) ==
    IF PortKey(port) \in KeySet(tports)
    THEN CHOOSE j \in 1..Len(tports) :
            /\ PortKey(tports[j]) = PortKey(port)
            /\ \A i \in 1..(j - 1) : PortKey(tports[i]) # PortKey(port)
    ELSE 0

\* the pairs of __dict__s the merge of a with t compares: the two entities,
\* and every authoritative port with its matched supplement port
ComparedPairs(a, t) ==
    {<<a.attrs, t.attrs>>}
    \cup {<<a.ports[i], t.ports[Match(t.ports, a.ports[i])]>> :
            i \in {i \in 1..Len(a.ports) : Match(t.ports, a.ports[i]) # 0}}

\* __merge_object_model has returned or raised
MergeDone == pc = "done"

\* C1: merge fails with InconsistencyError if and only if some compared
\* attribute (of the entity, or of a port pair matched by (name, index)) has in
\* both operands a present, non-empty, unequal value that no tolerance rule
\* (case-insensitive equality, qualified-suffix type names, bookkeeping
\* attributes) reconciles.
C1_FailsIffConflict ==
    MergeDone =>
        (raised <=>
            \E pair \in ComparedPairs(amalgam0, traits) :
                \E attr \in DOMAIN pair[1] \cup DOMAIN pair[2] :
                    Conflict(attr, GetAttr(pair[1], attr), GetAttr(pair[2], attr)))

\* C2: when no attribute has a value in both operands, merge succeeds and
\* every attribute carries the value of the one operand that has it: the
\* authoritative value when the supplement's is absent or empty, the
\* supplement's when the authoritative one is absent or empty.
C2_OneSidedValueCarried ==
    (MergeDone /\ \A attr \in DOMAIN amalgam0.attrs :
                    ~(HasValue(amalgam0.attrs[attr]) /\ HasValue(traits.attrs[attr])))
    => /\ ~raised
       /\ \A attr \in DOMAIN amalgam0.attrs :
            /\ (HasValue(amalgam0.attrs[attr]) /\ ~HasValue(traits.attrs[attr]))
                    => amalgam.attrs[attr] = amalgam0.attrs[attr]
            /\ (~HasValue(amalgam0.attrs[attr]) /\ HasValue(traits.attrs[attr]))
                    => amalgam.attrs[attr] = traits.attrs[attr]

\* C3: when the two values of an attribute are strings equal ignoring case,
\* that attribute raises no error and the result keeps the authoritative
\* spelling, not the supplement's.
C3_CaseEqualKeepsAuthoritative ==
    MergeDone =>
        /\ (\A attr \in DOMAIN amalgam0.attrs :
                IsNone(traits.attrs[attr]) \/ CaseEqual(amalgam0.attrs[attr], traits.attrs[attr]))
            => ~raised
        /\ ~raised =>
             \A attr \in DOMAIN amalgam0.attrs :
                CaseEqual(amalgam0.attrs[attr], traits.attrs[attr])
                    => amalgam.attrs[attr] = amalgam0.attrs[attr]

\* C4: when one port data-type name is a dot/colon-qualified suffix of the
\* other, in either direction, merge treats the two as equal: the type raises
\* no error and the authoritative name is kept.
C4_QualifiedSuffixEitherDirection ==
    (MergeDone /\ "_Port__ptype" \in DOMAIN amalgam0.attrs
        /\ \/ QualifiedSuffix(amalgam0.attrs["_Port__ptype"], traits.attrs["_Port__ptype"])
           \/ QualifiedSuffix(traits.attrs["_Port__ptype"], amalgam0.attrs["_Port__ptype"])
        /\ \A attr \in DOMAIN amalgam0.attrs \ {"_Port__ptype"} : IsNone(traits.attrs[attr]))
    => /\ ~raised
       /\ amalgam.attrs["_Port__ptype"] = amalgam0.attrs["_Port__ptype"]

\* C5: the bookkeeping attributes (originating file path, modeler tag) are
\* never compared: differing values never cause InconsistencyError, and the
\* authoritative value of each is the same after merge as before.
C5_BookkeepingUntouched ==
    MergeDone =>
        /\ (\A attr \in DOMAIN amalgam0.attrs :
                Bookkeeping(attr) \/ IsNone(traits.attrs[attr]))
            => ~raised
        /\ \A attr \in DOMAIN amalgam0.attrs :
                (Bookkeeping(attr) /\ HasValue(amalgam0.attrs[attr]))
                    => amalgam.attrs[attr] = amalgam0.attrs[attr]

\* the supplement's ports whose (name, index) the authoritative list lacks
AbsentPorts(aports, tports) ==
    LET Lacking(p) == PortKey(p) \notin KeySet(aports)
    IN  SelectSeq(tports, Lacking)

\* C6: a successful merge of two components keeps every authoritative port in
\* place under its (name, index), fills its unset attributes from the
\* supplement port with the same (name, index), appends exactly the supplement
\* ports whose (name, index) the authoritative list lacks, and so leaves the
\* union of both operands' key sets.
C6_PortListUnion ==
    (MergeDone /\ ~raised) =>
        LET A == amalgam0.ports
            T == traits.ports
            R == amalgam.ports
        IN  /\ Len(R) = Len(A) + Len(AbsentPorts(A, T))
            /\ \A i \in 1..Len(A) :
                  /\ PortKey(R[i]) = PortKey(A[i])
                  /\ Match(T, A[i]) = 0 => R[i] = A[i]
                  /\ Match(T, A[i]) # 0 =>
                        \A attr \in DOMAIN A[i] :
                            IsNone(A[i][attr]) => R[i][attr] = T[Match(T, A[i])][attr]
            /\ SubSeq(R, Len(A) + 1, Len(R)) = AbsentPorts(A, T)
            /\ KeySet(R) = KeySet(A) \cup KeySet(T)

\* C6 witness: a merge that returned, filled an unset type of an authoritative
\* port from its supplement port and appended a supplement port
C6_Witness ==
    /\ MergeDone /\ ~raised
    /\ Len(amalgam.ports) > Len(amalgam0.ports)
    /\ \E i \in 1..Len(amalgam0.ports) :
          /\ IsNone(amalgam0.ports[i]["_Port__ptype"])
          /\ Match(traits.ports, amalgam0.ports[i]) # 0
          /\ ~IsNone(amalgam.ports[i]["_Port__ptype"])

\* the ports of a component have pairwise different (name, index)
UniqueKeys(plist) ==
    \A i, j \in 1..Len(plist) : PortKey(plist[i]) = PortKey(plist[j]) => i = j

---------------------------------------------------------------------------
(* The component loader alone: a component XML with up to MaxDecl port     *)
(* declarations is loaded, then the target of one loaded port is set.      *)

SerialStr == <<"S", "e", "r", "i", "a", "l">>
InputStr == <<"I", "n", "p", "u", "t">>
OutputStr == <<"O", "u", "t", "p", "u", "t">>

\* the name of the k-th port a component XML declares
DeclName(k) == <<"a", "b", "c", "d">>[k]

\* the Port objects CompFactory creates for a component XML, one per
\* declaration: inputs and outputs in turn, each of a port type or Serial, with
\* or without a comment, with max_number 1..MaxCount
DeclaredPortLists ==
    UNION {
        {[k \in 1..n |-> NewPort(PyStr(<<DeclName(k)>>), PyStr(f[k][1]),
                                 PyStr(IF k % 2 = 1 THEN InputStr ELSE OutputStr),
                                 f[k][2], PyStr(<<Digit(f[k][3])>>))] :
            f \in [1..n -> {<<"T">>, SerialStr} \X {NoneV, PyStr(<<"a">>)} \X (1..MaxCount)]} :
        n \in 1..MaxDecl}

\* Component(namespace, name, kind, ...): the attributes of a Component object
\* the model follows
NewComponent(name, kind, kind2) ==
    [_Component__name |-> name, _Component__kind |-> kind, _Component__kind2 |-> kind2]

\* the component CompFactory creates for the component XML of kind K
CreatedSpec == NewComponent(PyStr(<<"K">>), PyStr(<<"p", "a", "s", "s", "i", "v", "e">>), NoneV)

\* port_objs (lines 127-128): the specification of each port type, with the
\* comment the port XML gives the type T
PortObjs(comment) ==
    [ty \in {<<"T">>, SerialStr} |->
        IF ty = SerialStr THEN NewPort(NoneV, PyStr(SerialStr), NoneV, NoneV, NoneV)
        ELSE NewPort(NoneV, PyStr(<<"T">>), NoneV, comment, NoneV)]

InitExpand ==
    /\ pc = "parsed"
    /\ comp = CreatedSpec
    /\ heap \in DeclaredPortLists
    /\ ports = [k \in 1..Len(heap) |-> k]
    /\ \E co \in {NoneV, PyStr(<<"a">>), PyStr(<<"b">>)} :
          xml = [decl |-> heap, portObjs |-> PortObjs(co)]
    /\ probe = 0
    /\ EngineIdle
    /\ raised = FALSE
    /\ amalgam = <<>>
    /\ traits = <<>>
    /\ amalgam0 = <<>>
    /\ model = <<>>

\* __component_loader returns the component
ComponentLoaderReturns ==
    /\ pc = "parsed"
    /\ LET ld == ComponentLoaded(comp, heap, ports, xml.portObjs)
       IN  /\ ~ld.raised
           /\ comp' = ld.attrs
           /\ heap' = ld.heap
           /\ ports' = ld.ports
    /\ pc' = "loaded"
    /\ UNCHANGED <<engineVars, amalgam, traits, amalgam0, raised, probe, xml, model>>

\* __component_loader raises InconsistencyException (line 153); the component
\* is dropped
ComponentLoaderFails ==
    /\ pc = "parsed"
    /\ ComponentLoaded(comp, heap, ports, xml.portObjs).raised
    /\ raised' = TRUE
    /\ pc' = "load_failed"
    /\ UNCHANGED <<engineVars, amalgam, traits, amalgam0, comp, heap, ports, probe, xml, model>>

\* port.set_target_comp(name) on one port of the loaded component
SetTargetComp ==
    /\ pc = "loaded"
    /\ \E i \in 1..Len(ports) :
          /\ heap' = [heap EXCEPT ![ports[i]]["_Port__target_comp"] = PyStr(<<"x">>)]
          /\ probe' = i
    /\ pc' = "probed"
    /\ UNCHANGED <<engineVars, amalgam, traits, amalgam0, raised, comp, ports, xml, model>>

NextExpand == ComponentLoaderReturns \/ ComponentLoaderFails \/ SetTargetComp

SpecExpand == InitExpand /\ [][NextExpand]_vars

\* the positions of the loaded list that hold a port of the given name
Instances(name) == {i \in 1..Len(ports) : heap[ports[i]]["_Port__pname"] = name}

\* C8: a loaded component has, for every declared port with max_number n,
\* exactly n port instances of that name, with the indices 0..n-1 once each,
\* each an object of its own; after the target of one instance has been set
\* the target of every other instance is still unset.
C8_ExpansionIndependent ==
    pc \in {"loaded", "probed"} =>
        /\ \A d \in 1..Len(xml.decl) :
             LET n == ToInt(xml.decl[d]["_Port__max_number"])
                 I == Instances(xml.decl[d]["_Port__pname"])
             IN  /\ Cardinality(I) = n
                 /\ \A k \in 0..(n - 1) :
                       Cardinality({i \in I : heap[ports[i]]["_Port__source_num"] = PyInt(k)}) = 1
        /\ \A i, j \in 1..Len(ports) : ports[i] = ports[j] => i = j
        /\ pc = "probed" =>
             /\ heap[ports[probe]]["_Port__target_comp"] = PyStr(<<"x">>)
             /\ \A j \in 1..Len(ports) :
                   j # probe => IsNone(heap[ports[j]]["_Port__target_comp"])

\* C8 witness: the target of one of two instances of a port was set
C8_Witness ==
    /\ pc = "probed"
    /\ \E j \in 1..Len(ports) :
          /\ j # probe
          /\ heap[ports[j]]["_Port__pname"] = heap[ports[probe]]["_Port__pname"]

---------------------------------------------------------------------------
(* __topology_loader (lines 101-117): the component specifications are     *)
(* loaded, TopoFactory creates the instances with their source-side ports, *)
(* __patch_target_ports adds the target-side ports, and every instance is  *)
(* merged with the specification of its kind.  A connection is its        *)
(* get_comment() and the tuples get_source() and get_target():             *)
(* (component, port, type, index), Python's [0]..[3] being [1]..[4] here.  *)

LowerInput == <<"i", "n", "p", "u", "t">>
LowerOutput == <<"o", "u", "t", "p", "u", "t">>

\* the Port TopoFactory.create makes for a connection on its source component
SourcePort(conn) ==
    [NewPort(PyStr(conn.source[2]), PyStr(conn.source[3]), PyStr(LowerOutput), conn.comment, NoneV)
        EXCEPT !["_Port__source_num"] = PyInt(conn.source[4]),
               !["_Port__target_comp"] = PyStr(conn.target[1]),
               !["_Port__target_port"] = PyStr(conn.target[2]),
               !["_Port__target_type"] = PyStr(conn.target[3]),
               !["_Port__target_num"] = PyInt(conn.target[4]),
               !["_Port__target_direction"] = PyStr(LowerInput)]

\* a target-side port whose target reference is its own endpoint, as the
\* source-side port's is
MutSynthPortUnswapped(conn) ==
    [NewPort(PyStr(conn.target[2]), PyStr(conn.target[3]), NoneV, conn.comment, NoneV)
        EXCEPT !["_Port__source_num"] = PyInt(conn.target[4]),
               !["_Port__target_comp"] = PyStr(conn.target[1]),
               !["_Port__target_port"] = PyStr(conn.target[2]),
               !["_Port__target_type"] = PyStr(conn.target[3]),
               !["_Port__target_num"] = PyInt(conn.target[4]),
               !["_Port__direction"] = PyStr(LowerInput),
               !["_Port__target_direction"] = PyStr(LowerOutput)]

\* lines 222-236: the Port __patch_target_ports makes for a connection on its
\* target component
SynthPort(conn) ==
    [NewPort(PyStr(conn.target[2]), PyStr(conn.target[3]), NoneV, conn.comment, NoneV)
        EXCEPT !["_Port__source_num"] = PyInt(conn.target[4]),
               !["_Port__target_comp"] = PyStr(conn.source[1]),
               !["_Port__target_port"] = PyStr(conn.source[2]),
               !["_Port__target_type"] = PyStr(conn.source[3]),
               !["_Port__target_num"] = PyInt(conn.source[4]),
               !["_Port__direction"] = PyStr(LowerInput),
               !["_Port__target_direction"] = PyStr(LowerOutput)]

\* line 107: the components TopoFactory.create makes, one per instance, each
\* with one port per connection that leaves it
TopoCreated(x) ==
    [i \in 1..Len(x.instances) |->
        LET Leaves(c) == c.source[1] = x.instances[i].name
            out == SelectSeq(x.connections, Leaves)
        IN  [attrs |-> NewComponent(PyStr(x.instances[i].name),
                                    PyStr(x.instances[i].kind), NoneV),
             ports |-> [k \in 1..Len(out) |-> SourcePort(out[k])]]]

\* lines 218-237: every component gets one more port per connection that
\* arrives at it
PatchTargetPorts(comps, conns) ==
    [i \in 1..Len(comps) |->
        LET Arrives(c) == PyEq(comps[i].attrs["_Component__name"], PyStr(c.target[1]))
            in == SelectSeq(conns, Arrives)
        IN  [comps[i] EXCEPT !.ports = @ \o [k \in 1..Len(in) |-> SynthPort(in[k])]]]

\* lines 105-106: comp_objs, here the one specification the topology includes,
\* as [raised, spec]
CompObj(x) ==
    LET ld == ComponentLoaded(x.spec, x.decl, [k \in 1..Len(x.decl) |-> k], x.portObjs)
    IN  [raised |-> ld.raised,
         spec |-> [attrs |-> ld.attrs,
                   ports |-> [k \in 1..Len(ld.ports) |-> ld.heap[ld.ports[k]]]]]

\* __topology_loader: [raised, model]
TopologyLoaded(x) ==
    LET co == CompObj(x)
        patched == PatchTargetPorts(TopoCreated(x), x.connections)
    IN  [raised |-> co.raised \/ \E i \in 1..Len(patched) : MergeRaises(patched[i], co.spec),
         model |-> [i \in 1..Len(patched) |-> Merged(patched[i], co.spec)]]

\* the endpoints a topology XML may connect: a connection leaves port o of
\* instance a or b and arrives at port i (declared with one slot, index 0) or
\* o (declared as an output) of instance a or b, or at x, which the topology
\* does not instantiate
SourceEnds == {<<<<"a">>, <<"o">>, <<"T">>, 0>>, <<<<"b">>, <<"o">>, <<"T">>, 0>>}

TargetEnds == {<<<<"b">>, <<"i">>, <<"T">>, 0>>, <<<<"b">>, <<"i">>, <<"T">>, 1>>,
               <<<<"a">>, <<"i">>, <<"T">>, 0>>, <<<<"b">>, <<"o">>, <<"T">>, 0>>,
               <<<<"x">>, <<"i">>, <<"T">>, 0>>}

Connections ==
    {[source |-> s, target |-> t, comment |-> c] :
        s \in SourceEnds, t \in TargetEnds, c \in {NoneV, PyStr(<<"c">>)}}

ConnectionLists == UNION {[1..n -> Connections] : n \in 0..MaxConns}

\* the ports CompFactory creates for the component XML of kind K: an output
\* array o and a commented input port i
DeclaredK ==
    <<NewPort(PyStr(<<"o">>), PyStr(<<"T">>), PyStr(OutputStr), NoneV, PyStr(<<Digit(MaxCount)>>)),
      NewPort(PyStr(<<"i">>), PyStr(<<"T">>), PyStr(InputStr), PyStr(<<"d">>), PyStr(<<"1">>))>>

InitLoad ==
    /\ pc = "parsed"
    /\ \E cs \in ConnectionLists :
          xml = [instances |-> <<[name |-> <<"a">>, kind |-> <<"K">>],
                                 [name |-> <<"b">>, kind |-> <<"K">>]>>,
                 connections |-> cs,
                 spec |-> CreatedSpec,
                 decl |-> DeclaredK,
                 portObjs |-> PortObjs(NoneV)]
    /\ model = <<>>
    /\ raised = FALSE
    /\ amalgam = <<>>
    /\ traits = <<>>
    /\ amalgam0 = <<>>
    /\ comp = <<>>
    /\ heap = <<>>
    /\ ports = <<>>
    /\ probe = 0
    /\ EngineIdle

\* __topology_loader returns the reconciled Topology
TopologyLoaderReturns ==
    /\ pc = "parsed"
    /\ LET loaded == TopologyLoaded(xml)
       IN  /\ ~loaded.raised
           /\ model' = loaded.model
    /\ pc' = "reconciled"
    /\ UNCHANGED <<engineVars, amalgam, traits, amalgam0, raised, comp, heap, ports, probe, xml>>

\* __topology_loader raises InconsistencyException (line 115); no Topology
TopologyLoaderFails ==
    /\ pc = "parsed"
    /\ TopologyLoaded(xml).raised
    /\ raised' = TRUE
    /\ pc' = "load_failed"
    /\ UNCHANGED <<engineVars, amalgam, traits, amalgam0, comp, heap, ports, probe, xml, model>>

NextLoad == TopologyLoaderReturns \/ TopologyLoaderFails

SpecLoad == InitLoad /\ [][NextLoad]_vars

\* the components of the reconciled topology with the given instance name
Named(name) == {i \in 1..Len(model) : model[i].attrs["_Component__name"] = PyStr(name)}

\* port p is the endpoint (port, index) with role dir, and its target reference
\* is the endpoint (comp, port, index) with role tdir
Refers(p, port, num, dir, tcomp, tport, tnum, tdir) ==
    /\ p["_Port__pname"] = PyStr(port)
    /\ p["_Port__source_num"] = PyInt(num)
    /\ p["_Port__direction"].k = "str" /\ Lower(p["_Port__direction"].s) = dir
    /\ p["_Port__target_comp"] = PyStr(tcomp)
    /\ p["_Port__target_port"] = PyStr(tport)
    /\ p["_Port__target_num"] = PyInt(tnum)
    /\ p["_Port__target_direction"].k = "str" /\ Lower(p["_Port__target_direction"].s) = tdir

\* C9: in a reconciled topology every declared connection whose target
\* component is instantiated shows on that component as a port with the
\* target's name and index and role Input whose target reference is the
\* source endpoint with role Output.
C9_ConnectionVisibleFromTarget ==
    pc = "reconciled" =>
        \A k \in 1..Len(xml.connections) :
            LET c == xml.connections[k]
            IN  \A i \in Named(c.target[1]) :
                    \E j \in 1..Len(model[i].ports) :
                        Refers(model[i].ports[j], c.target[2], c.target[4], LowerInput,
                               c.source[1], c.source[2], c.source[4], LowerOutput)

\* C9 witness: a reconciled topology with a connection into a declared input
\* port of an instantiated component
C9_Witness ==
    /\ pc = "reconciled"
    /\ \E k \in 1..Len(xml.connections) :
          /\ Named(xml.connections[k].target[1]) # {}
          /\ xml.connections[k].target[2] = <<"i">>

\* C10: in a reconciled topology no component's port list holds two ports
\* with the same name and index.
C10_PortKeysUnique ==
    pc = "reconciled" => \A i \in 1..Len(model) : UniqueKeys(model[i].ports)

---------------------------------------------------------------------------
(* The check engine.  A problem is the dict add_problem appends, without   *)
(* its message: [severity, identifier, module], module being the standard  *)
(* location string as a sequence of characters.                            *)

\* CheckSeverity
WARNING == "WARNING"
ERROR == "ERROR"

\* CheckResult.add_problem (check.py lines 54-62) with the location string
\* already built: problems is result.problems before the call; the result is
\* [raised, problems], raised when the assert of line 54 fails
AddProblem(severities, problems, ident, module) ==
    IF ident \notin DOMAIN severities
    THEN [raised |-> TRUE, problems |-> problems]
    ELSE [raised |-> FALSE,
          problems |-> Append(problems, [severity |-> severities[ident],
                                         identifier |-> ident,
                                         module |-> module])]

\* re.compile for patterns of literal characters, "." and "x*": the list of
\* the pattern's items, [c, star]
RECURSIVE Compile(_)
Compile(chars) ==
    IF chars = <<>> THEN <<>>
    ELSE IF Len(chars) >= 2 /\ chars[2] = "*"
    THEN <<[c |-> chars[1], star |-> TRUE]>> \o Compile(SubSeq(chars, 3, Len(chars)))
    ELSE <<[c |-> chars[1], star |-> FALSE]>> \o Compile(Tail(chars))

\* one pattern character matches one character of the text
CharMatches(c, x) == c = "." \/ c = x

\* the items of the pattern from i on match the text from position j on
RECURSIVE MatchHere(_, _, _, _)
MatchHere(re, i, text, j) ==
    IF i > Len(re) THEN TRUE
    ELSE IF re[i].star
    THEN \E k \in 0..(Len(text) - j + 1) :
            /\ \A m \in j..(j + k - 1) : CharMatches(re[i].c, text[m])
            /\ MatchHere(re, i + 1, text, j + k)
    ELSE /\ j <= Len(text)
         /\ CharMatches(re[i].c, text[j])
         /\ MatchHere(re, i + 1, text, j + 1)

\* Pattern.search(text) is not None: the pattern matches somewhere in the text
Search(re, text) == \E j \in 1..(Len(text) + 1) : MatchHere(re, 1, text, j)

\* the default specifier of a property without one
MatchAll == <<".", "*">>

\* config.py __homogenize_filter (lines 61-65) for a known identifier:
\* properties is what the configuration holds under the identifier, None or
\* a list of property dicts, each [specifier |-> chars] or, without the key,
\* [specifier |-> NoneV]
HomogenizeFilter(identifier, properties) ==
    LET props == IF PyNot(properties) THEN <<[specifier |-> NoneV]>> ELSE properties.s
    IN  [identifier |-> identifier,
         specifiers |-> [k \in 1..Len(props) |->
                            Compile(IF IsNone(props[k].specifier) THEN MatchAll
                                    ELSE props[k].specifier.s)]]

\* config.py load_configuration (lines 42-48) on a YAML document whose
\* filters mapping is the list doc of [identifier, properties], or on no
\* file: [raised, filters], raised for ConfigurationException (line 62)
LoadConfiguration(doc, known_idents) ==
    IF \E k \in 1..Len(doc) : doc[k].identifier \notin known_idents
    THEN [raised |-> TRUE, filters |-> <<>>]
    ELSE [raised |-> FALSE,
          filters |-> [k \in 1..Len(doc) |->
                          HomogenizeFilter(doc[k].identifier, doc[k].properties)]]

\* load.py homogenize_filters (lines 38-40): idents is not looked at
HomogenizeFilters(idents, identifier, properties) ==
    LET props == IF IsNone(properties) THEN <<[specifier |-> NoneV]>> ELSE properties.s
    IN  <<[identifier |-> identifier,
           properties |-> [k \in 1..Len(props) |->
                              [specifier |-> Compile(IF IsNone(props[k].specifier)
                                                     THEN MatchAll
                                                     ELSE props[k].specifier.s)]]]>>

\* itertools.chain.from_iterable of a list of lists
RECURSIVE Chain(_)
Chain(lists) == IF lists = <<>> THEN <<>> ELSE Head(lists) \o Chain(Tail(lists))

\* load.py load_configuration (lines 45-50): it raises for a YAML error only
LegacyLoadConfiguration(doc, identifiers) ==
    [raised |-> FALSE,
     filters |-> Chain([k \in 1..Len(doc) |->
                          HomogenizeFilters(identifiers, doc[k].identifier,
                                            doc[k].properties)])]

\* check.py lines 80-82: some specifier from position k on matches the module
RECURSIVE SpecifierFound(_, _, _)
SpecifierFound(specifiers, k, module) ==
    IF k > Len(specifiers) THEN FALSE
    ELSE IF Search(specifiers[k], module) THEN TRUE
    ELSE SpecifierFound(specifiers, k + 1, module)

\* an is_excluded that does not compare the identifiers
MutExcludedByLocation(filters, f, problem) ==
    \E g \in f..Len(filters) : SpecifierFound(filters[g].specifiers, 1, problem.module)

\* check.py lines 73-83: is_excluded(problem), the loop from filter f on
RECURSIVE IsExcluded(_, _, _)
IsExcluded(filters, f, problem) ==
    IF f > Len(filters) THEN FALSE
    ELSE IF problem.identifier # filters[f].identifier
    THEN IsExcluded(filters, f + 1, problem)
    ELSE IF SpecifierFound(filters[f].specifiers, 1, problem.module) THEN TRUE
    ELSE IsExcluded(filters, f + 1, problem)

\* a filter after which only the problems of severity ERROR count
MutErrorsOnly(problems, filters) ==
    LET Kept(problem) == ~IsExcluded(filters, 1, problem) /\ problem.severity = ERROR
    IN  SelectSeq(problems, Kept)

\* CheckResult.get_filtered_problems (check.py lines 64-85)
GetFilteredProblems(problems, filters) ==
    LET Kept(problem) == ~IsExcluded(filters, 1, problem)
    IN  SelectSeq(problems, Kept)

\* checks/check.py lines 62-65: some specifier of the exclusion's properties
\* from position k on matches the module
RECURSIVE PropertyFound(_, _, _)
PropertyFound(properties, k, module) ==
    IF k > Len(properties) THEN FALSE
    ELSE IF Search(properties[k].specifier, module) THEN TRUE
    ELSE PropertyFound(properties, k + 1, module)

\* checks/check.py lines 57-66: is_excluded(problem), from exclusion f on
RECURSIVE BaseIsExcluded(_, _, _)
BaseIsExcluded(exclusions, f, problem) ==
    IF f > Len(exclusions) THEN FALSE
    ELSE IF problem.identifier # exclusions[f].identifier
    THEN BaseIsExcluded(exclusions, f + 1, problem)
    ELSE IF PropertyFound(exclusions[f].properties, 1, problem.module) THEN TRUE
    ELSE BaseIsExcluded(exclusions, f + 1, problem)

\* checks/check.py CheckResult.get_filtered_problems (lines 55-68)
BaseGetFilteredProblems(problems, exclusions) ==
    LET Kept(problem) == ~BaseIsExcluded(exclusions, 1, problem)
    IN  SelectSeq(problems, Kept)

---------------------------------------------------------------------------
(* run_all.  A check class is [name, extra, severities, does]: its         *)
(* __name__, the keys of get_extra_arguments(), get_identifiers(), and     *)
(* what its run does: raise, or add the problems of the list adds, each    *)
(* [identifier, module], and return the result.                            *)

\* most check classes registered
MaxChecks == 2

\* get_checkers (check.py lines 175-183, checks/check.py lines 113-121): the
\* registered classes, in discovery order, whose name is not excluded
GetCheckers(registered, excluded) ==
    LET NotExcluded(checker) == checker.name \notin excluded
    IN  SelectSeq(registered, NotExcluded)

\* str.replace("-", "_")
ReplaceDash(chars) == [k \in 1..Len(chars) |-> IF chars[k] = "-" THEN "_" ELSE chars[k]]

\* check.py line 195: needed_args
NeededArgs(checker) == [k \in 1..Len(checker.extra) |-> ReplaceDash(checker.extra[k])]

\* getattr(arguments, needed, None); arguments is [none, dict], none for None
ArgumentOf(arguments, needed) ==
    IF arguments.none THEN NoneV ELSE GetAttr(arguments.dict, needed)

\* check.py line 196: filled_args
FilledArgs(arguments, needed_args) ==
    LET Filled(needed) == ~IsNone(ArgumentOf(arguments, needed))
        present == SelectSeq(needed_args, Filled)
    IN  [k \in 1..Len(present) |-> ArgumentOf(arguments, present[k])]

\* a skip for a missing namespace only, not for a missing value
MutMissingNamespaceOnly(checker, arguments) ==
    NeededArgs(checker) # <<>> /\ arguments.none

\* check.py line 197: the check is skipped
MissingArgs(checker, arguments) ==
    \/ NeededArgs(checker) # <<>> /\ arguments.none
    \/ Len(NeededArgs(checker)) # Len(FilledArgs(arguments, NeededArgs(checker)))

\* checker().run(result, model, ...) on a fresh CheckResult (check.py lines
\* 201-202): the add_problem calls of the check in order, [raised, problems]
RECURSIVE RunFrom(_, _, _)
RunFrom(checker, k, problems) ==
    IF k > Len(checker.does.adds) THEN [raised |-> checker.does.raises, problems |-> problems]
    ELSE LET added == AddProblem(checker.severities, problems,
                                 checker.does.adds[k].identifier, checker.does.adds[k].module)
         IN  IF added.raised THEN added
             ELSE RunFrom(checker, k + 1, added.problems)

CheckerRun(checker) == RunFrom(checker, 1, <<>>)

\* the checker the loop of run_all is at
Checkers == GetCheckers(args.registered, args.excluded)
Checker == Checkers[ix]

\* one entry of the history: what happened to a checker, and the problems
\* that survived the filters
Logged(checker, what, problems) == [name |-> checker.name, what |-> what, problems |-> problems]

\* CheckBase.run_all, lines 195-199: the checker misses arguments and is skipped
RunAllSkips ==
    /\ pc = "run_all"
    /\ ix <= Len(Checkers)
    /\ MissingArgs(Checker, args.arguments)
    /\ log' = Append(log, Logged(Checker, "skip", <<>>))
    /\ ix' = ix + 1
    /\ UNCHANGED <<pc, loaderVars, model, args, all_clear, success, result, ret>>

\* CheckBase.run_all, lines 200-206: the checker runs and returns its result
RunAllRuns ==
    /\ pc = "run_all"
    /\ ix <= Len(Checkers)
    /\ ~MissingArgs(Checker, args.arguments)
    /\ ~CheckerRun(Checker).raised
    /\ LET problems == GetFilteredProblems(CheckerRun(Checker).problems, args.filters)
       IN  /\ result' = CheckerRun(Checker).problems
           /\ all_clear' = (all_clear /\ problems = <<>>)
           /\ log' = Append(log, Logged(Checker, "run", problems))
    /\ ix' = ix + 1
    /\ UNCHANGED <<pc, loaderVars, model, args, success, ret>>

\* a run_all that catches the exception of a checker and stays all clear
MutRunAllCatchesStaysClear ==
    /\ pc = "run_all"
    /\ ix <= Len(Checkers)
    /\ ~MissingArgs(Checker, args.arguments)
    /\ CheckerRun(Checker).raised
    /\ log' = Append(log, Logged(Checker, "raise", <<>>))
    /\ ix' = ix + 1
    /\ UNCHANGED <<pc, loaderVars, model, args, all_clear, success, result, ret>>

\* CheckBase.run_all, lines 207-209: the checker raises, the exception is caught
RunAllCatches ==
    /\ pc = "run_all"
    /\ ix <= Len(Checkers)
    /\ ~MissingArgs(Checker, args.arguments)
    /\ CheckerRun(Checker).raised
    /\ all_clear' = FALSE
    /\ log' = Append(log, Logged(Checker, "raise", <<>>))
    /\ ix' = ix + 1
    /\ UNCHANGED <<pc, loaderVars, model, args, success, result, ret>>

\* CheckBase.run_all, line 210
RunAllReturns ==
    /\ pc = "run_all"
    /\ ix > Len(Checkers)
    /\ ret' = PyBool(all_clear)
    /\ pc' = "returned"
    /\ UNCHANGED <<loaderVars, model, args, ix, all_clear, success, result, log>>

\* BaseCheck.run_all, lines 131-139 and 144: the first checker runs, and the
\* return inside the loop ends the call
BaseRunAllReturns ==
    /\ pc = "base_run_all"
    /\ ix <= Len(Checkers)
    /\ ~CheckerRun(Checker).raised
    /\ LET problems == BaseGetFilteredProblems(CheckerRun(Checker).problems, args.filters)
       IN  /\ result' = CheckerRun(Checker).problems
           /\ all_clear' = (all_clear /\ problems = <<>>)
           /\ ret' = PyBool(all_clear /\ problems = <<>>)
           /\ log' = Append(log, Logged(Checker, "run", problems))
    /\ pc' = "returned"
    /\ UNCHANGED <<loaderVars, model, args, ix, success>>

\* BaseCheck.run_all, lines 140-143: the first checker raises, the exception
\* is reported and raised again
BaseRunAllRaises ==
    /\ pc = "base_run_all"
    /\ ix <= Len(Checkers)
    /\ CheckerRun(Checker).raised
    /\ all_clear' = FALSE
    /\ log' = Append(log, Logged(Checker, "raise", <<>>))
    /\ pc' = "raised"
    /\ UNCHANGED <<loaderVars, model, args, ix, success, result, ret>>

\* BaseCheck.run_all without checkers: the loop is not entered and the call
\* returns None
BaseRunAllFallsOff ==
    /\ pc = "base_run_all"
    /\ ix > Len(Checkers)
    /\ ret' = NoneV
    /\ pc' = "returned"
    /\ UNCHANGED <<loaderVars, model, args, ix, all_clear, success, result, log>>

\* the name of the k-th registered check class
CheckName(k) == <<"A", "B", "C", "D">>[k]

\* the location string of the problems the check classes add
ModuleTa == <<"T", ".", "a">>

\* what the run of a check class does: raise, return without a problem, add a
\* warning, an error, both, or a problem of an undeclared identifier
Doings ==
    {[raises |-> TRUE, adds |-> <<>>],
     [raises |-> FALSE, adds |-> <<>>],
     [raises |-> FALSE, adds |-> <<[identifier |-> "w", module |-> ModuleTa]>>],
     [raises |-> FALSE, adds |-> <<[identifier |-> "e", module |-> ModuleTa]>>],
     [raises |-> FALSE, adds |-> <<[identifier |-> "w", module |-> ModuleTa],
                                   [identifier |-> "e", module |-> ModuleTa]>>],
     [raises |-> FALSE, adds |-> <<[identifier |-> "u", module |-> ModuleTa]>>]}

\* get_identifiers() of the check classes
Severities == [w |-> WARNING, e |-> ERROR]

\* the keys get_extra_arguments() may have, and argparse's attribute for it
ExtraKey == <<"h", "-", "x">>
ExtraDest == <<"h", "_", "x">>

\* the registered check classes
Registered ==
    UNION {[1..n -> {[extra |-> ex, does |-> d] : ex \in {<<>>, <<ExtraKey>>}, d \in Doings}] :
            n \in 0..MaxChecks}

CheckClasses(choice) ==
    [k \in 1..Len(choice) |->
        [name |-> CheckName(k), extra |-> choice[k].extra, severities |-> Severities,
         does |-> choice[k].does]]

\* the parsed command line: None, or a namespace without or with the option
Arguments ==
    {[none |-> TRUE, dict |-> <<>>],
     [none |-> FALSE, dict |-> (ExtraDest :> NoneV)],
     [none |-> FALSE, dict |-> (ExtraDest :> PyStr(<<"v">>))]}

\* the filters mapping of a configuration: none, every warning, the errors
\* located in something that contains b, the errors located in something
\* that contains b or a
FilterDocs ==
    {<<>>,
     <<[identifier |-> "w", properties |-> NoneV]>>,
     <<[identifier |-> "e", properties |-> PyList(<<[specifier |-> PyStr(<<"b">>)]>>)]>>,
     <<[identifier |-> "e", properties |-> PyList(<<[specifier |-> PyStr(<<"b">>)],
                                                    [specifier |-> PyStr(<<"a">>)]>>)]>>}

InitRun ==
    /\ LoaderIdle
    /\ model = <<>>
    /\ \E choice \in Registered, excluded \in {{}, {CheckName(1)}}, doc \in FilterDocs :
          \/ /\ pc = "run_all"
             /\ \E arguments \in Arguments :
                   args = [cls |-> "CheckBase",
                           registered |-> CheckClasses(choice), excluded |-> excluded,
                           filters |-> LoadConfiguration(doc, DOMAIN Severities).filters,
                           arguments |-> arguments]
          \/ /\ pc = "base_run_all"
             /\ args = [cls |-> "BaseCheck",
                        registered |-> CheckClasses(choice), excluded |-> excluded,
                        filters |-> LegacyLoadConfiguration(doc, DOMAIN Severities).filters,
                        arguments |-> [none |-> TRUE, dict |-> <<>>]]
    /\ ix = 1
    /\ all_clear = TRUE
    /\ success = TRUE
    /\ result = <<>>
    /\ log = <<>>
    /\ ret = NoneV

NextRun ==
    \/ RunAllSkips
    \/ RunAllRuns
    \/ RunAllCatches
    \/ RunAllReturns
    \/ BaseRunAllReturns
    \/ BaseRunAllRaises
    \/ BaseRunAllFallsOff

SpecRun == InitRun /\ [][NextRun]_vars

---------------------------------------------------------------------------
(* CheckResult.get_filtered_problems on its own (check.py lines 64-85): the *)
(* problems a check added, filtered by the rules of a configuration.       *)

MaxProblems == 3

\* the location strings of the problems
ModuleTb == <<"T", ".", "b">>

\* the problems add_problem has appended to self.problems
ProblemLists ==
    UNION {[1..n -> {AddProblem(Severities, <<>>, ident, module).problems[1] :
                        ident \in DOMAIN Severities, module \in {ModuleTa, ModuleTb}}] :
            n \in 0..MaxProblems}

\* what a configuration holds under an identifier: nothing, an empty list, a
\* property without specifier, and lists of one or two specifiers
FilterProperties ==
    {NoneV, PyList(<<>>), PyList(<<[specifier |-> NoneV]>>),
     PyList(<<[specifier |-> PyStr(<<"b">>)]>>),
     PyList(<<[specifier |-> PyStr(<<"x">>)], [specifier |-> PyStr(<<"T", ".", "*", "a">>)]>>)}

\* the filters mappings: a YAML mapping has each identifier once
FilterConfigs ==
    {<<>>}
    \cup {<<[identifier |-> i, properties |-> p]>> :
             i \in DOMAIN Severities, p \in FilterProperties}
    \cup {<<[identifier |-> "w", properties |-> p], [identifier |-> "e", properties |-> q]>> :
             p \in FilterProperties, q \in FilterProperties}

InitFilter ==
    /\ LoaderIdle
    /\ model = <<>>
    /\ pc = "get_filtered_problems"
    /\ \E problems \in ProblemLists, doc \in FilterConfigs :
          /\ args = [problems |-> problems,
                     filters |-> LoadConfiguration(doc, DOMAIN Severities).filters]
          /\ result = problems
    /\ ix = 0
    /\ all_clear = TRUE
    /\ success = TRUE
    /\ log = <<>>
    /\ ret = NoneV

\* result.get_filtered_problems(filters): self.problems stays, a new list is
\* returned
GetFilteredProblemsCall ==
    /\ pc = "get_filtered_problems"
    /\ ret' = PyList(GetFilteredProblems(result, args.filters))
    /\ result' = result
    /\ pc' = "filtered"
    /\ UNCHANGED <<loaderVars, model, args, ix, all_clear, success, log>>

NextFilter == GetFilteredProblemsCall

SpecFilter == InitFilter /\ [][NextFilter]_vars

---------------------------------------------------------------------------
(* main (main.py lines 59-69): the configuration and the topologies are    *)
(* loaded, run_all is called on every topology, the process exits.  Line   *)
(* 35 binds the name BaseCheck to the class of checks/check.py and line 34 *)
(* load_configuration to the function of load.py; the calls of main are    *)
(* written for CheckBase of check.py and go with config.py.  Both pairs    *)
(* are modelled, args.cls says which one the names are bound to.           *)

MaxModels == 3

\* CheckBase.run_all as a function (check.py lines 192-210): the loop from
\* checker k on
RECURSIVE RunAllFrom(_, _, _, _, _)
RunAllFrom(checkers, k, filters, arguments, clear) ==
    IF k > Len(checkers) THEN clear
    ELSE IF MissingArgs(checkers[k], arguments)
    THEN RunAllFrom(checkers, k + 1, filters, arguments, clear)
    ELSE IF CheckerRun(checkers[k]).raised
    THEN RunAllFrom(checkers, k + 1, filters, arguments, FALSE)
    ELSE RunAllFrom(checkers, k + 1, filters, arguments,
                    clear /\ GetFilteredProblems(CheckerRun(checkers[k]).problems,
                                                 filters) = <<>>)

RunAll(registered, excluded, filters, arguments) ==
    RunAllFrom(GetCheckers(registered, excluded), 1, filters, arguments, TRUE)

\* what the one registered check class does on a topology
MainDoings ==
    {[raises |-> TRUE, adds |-> <<>>],
     [raises |-> FALSE, adds |-> <<>>],
     [raises |-> FALSE, adds |-> <<[identifier |-> "w", module |-> ModuleTa]>>]}

\* the topologies named on the command line: whether the file loads, and
\* what the check does on the loaded topology
ModelLists ==
    UNION {[1..n -> [loads : BOOLEAN, does : MainDoings]] : n \in 0..MaxModels}

\* the filters mapping of the configuration: none, every warning, or an
\* identifier no check class declares
MainDocs ==
    {<<>>,
     <<[identifier |-> "w", properties |-> NoneV]>>,
     <<[identifier |-> "u", properties |-> NoneV]>>}

\* the check classes as they behave on topology m
ChecksOn(m) ==
    <<[name |-> CheckName(1), extra |-> <<>>, severities |-> Severities,
       does |-> args.models[m].does]>>

InitMain ==
    /\ LoaderIdle
    /\ model = <<>>
    /\ pc = "main"
    /\ \E cls \in {"CheckBase", "BaseCheck"}, doc \in MainDocs, models \in ModelLists :
          args = [cls |-> cls, doc |-> doc, models |-> models,
                  arguments |-> [none |-> FALSE, dict |-> <<>>]]
    /\ ix = 0
    /\ all_clear = TRUE
    /\ success = TRUE
    /\ result = <<>>
    /\ log = <<>>
    /\ ret = NoneV

\* the configuration main.py line 61 loads: config.py for CheckBase, load.py
\* for BaseCheck
MainConfiguration ==
    IF args.cls = "CheckBase" THEN LoadConfiguration(args.doc, DOMAIN Severities)
    ELSE LegacyLoadConfiguration(args.doc, DOMAIN Severities)

\* main.py line 61: load_configuration raises ConfigurationException, which
\* the except clause of line 63 does not name; the process ends with the
\* exception
MainConfigurationRaises ==
    /\ pc = "main"
    /\ MainConfiguration.raised
    /\ pc' = "exited"
    /\ ret' = PyInt(1)
    /\ UNCHANGED <<loaderVars, model, args, ix, all_clear, success, result, log>>

\* main.py lines 62-65: load_model raises LoadException for some topology
MainLoadFails ==
    /\ pc = "main"
    /\ ~MainConfiguration.raised
    /\ \E m \in 1..Len(args.models) : ~args.models[m].loads
    /\ pc' = "exited"
    /\ ret' = PyInt(1)
    /\ UNCHANGED <<loaderVars, model, args, ix, all_clear, success, result, log>>

\* main.py lines 61-66: everything loads
MainLoads ==
    /\ pc = "main"
    /\ ~MainConfiguration.raised
    /\ \A m \in 1..Len(args.models) : args.models[m].loads
    /\ result' = MainConfiguration.filters
    /\ success' = TRUE
    /\ ix' = 1
    /\ pc' = "loop"
    /\ UNCHANGED <<loaderVars, model, args, all_clear, log, ret>>

\* main.py line 68, success is true: CheckBase.run_all is called on the topology
MainRunAll ==
    /\ pc = "loop"
    /\ ix <= Len(args.models)
    /\ success
    /\ args.cls = "CheckBase"
    /\ success' = RunAll(ChecksOn(ix), {}, result, args.arguments)
    /\ log' = Append(log, ix)
    /\ ix' = ix + 1
    /\ UNCHANGED <<pc, loaderVars, model, args, all_clear, result, ret>>

\* main.py line 68, success is true: BaseCheck.run_all has no parameter
\* arguments, the call raises TypeError and the process ends with it
MainRunAllRaises ==
    /\ pc = "loop"
    /\ ix <= Len(args.models)
    /\ success
    /\ args.cls = "BaseCheck"
    /\ pc' = "exited"
    /\ ret' = PyInt(1)
    /\ UNCHANGED <<loaderVars, model, args, ix, all_clear, success, result, log>>

\* main.py line 68, success is false: "and" does not evaluate the call
MainKeepsFailure ==
    /\ pc = "loop"
    /\ ix <= Len(args.models)
    /\ ~success
    /\ success' = success
    /\ ix' = ix + 1
    /\ UNCHANGED <<pc, loaderVars, model, args, all_clear, result, log, ret>>

\* main.py line 69
MainExits ==
    /\ pc = "loop"
    /\ ix > Len(args.models)
    /\ ret' = PyInt(IF success THEN 0 ELSE 1)
    /\ pc' = "exited"
    /\ UNCHANGED <<loaderVars, model, args, ix, all_clear, success, result, log>>

NextMain ==
    \/ MainConfigurationRaises
    \/ MainLoadFails
    \/ MainLoads
    \/ MainRunAll
    \/ MainRunAllRaises
    \/ MainKeepsFailure
    \/ MainExits

SpecMain == InitMain /\ [][NextMain]_vars

---------------------------------------------------------------------------
(* The checks PortCollision (checks/collisions.py) and PortConnections     *)
(* (checks/connected.py), run on a topology __topology_loader has          *)
(* reconciled.                                                             *)

MaxWires == 3

\* the ports CompFactory creates for the component XML of kind K: an output
\* array o, an input array i, an input j of another type, a Serial input s
DeclaredChecked ==
    <<NewPort(PyStr(<<"o">>), PyStr(<<"T">>), PyStr(OutputStr), NoneV, PyStr(<<"2">>)),
      NewPort(PyStr(<<"i">>), PyStr(<<"T">>), PyStr(InputStr), NoneV, PyStr(<<"2">>)),
      NewPort(PyStr(<<"j">>), PyStr(<<"U">>), PyStr(InputStr), NoneV, PyStr(<<"1">>)),
      NewPort(PyStr(<<"s">>), PyStr(SerialStr), PyStr(InputStr), NoneV, PyStr(<<"1">>))>>

\* port_objs (lines 127-128) for the port types T and U
PortObjsChecked ==
    [ty \in {<<"T">>, <<"U">>, SerialStr} |-> NewPort(NoneV, PyStr(ty), NoneV, NoneV, NoneV)]

\* a connection of the topology XML
Wire(scomp, sport, stype, snum, tcomp, tport, ttype, tnum) ==
    [source |-> <<scomp, sport, stype, snum>>, target |-> <<tcomp, tport, ttype, tnum>>,
     comment |-> NoneV]

\* the connections a topology XML may hold, in the order of the file: three
\* outputs into the slot 1 of the array i of b, two into the single port j,
\* one into the Serial port, into a slot beyond the array, into a component
\* that is not instantiated, into no component, into an output, and
\* connections between ports p that the component XML does not declare
Wires ==
    <<Wire(<<"a">>, <<"o">>, <<"T">>, 0, <<"b">>, <<"i">>, <<"T">>, 1),
      Wire(<<"a">>, <<"o">>, <<"T">>, 1, <<"b">>, <<"i">>, <<"T">>, 1),
      Wire(<<"b">>, <<"o">>, <<"T">>, 0, <<"b">>, <<"i">>, <<"T">>, 1),
      Wire(<<"a">>, <<"o">>, <<"T">>, 0, <<"b">>, <<"j">>, <<"U">>, 0),
      Wire(<<"a">>, <<"o">>, <<"T">>, 1, <<"b">>, <<"j">>, <<"U">>, 0),
      Wire(<<"a">>, <<"o">>, <<"T">>, 0, <<"b">>, <<"s">>, SerialStr, 0),
      Wire(<<"a">>, <<"o">>, <<"T">>, 0, <<"b">>, <<"i">>, <<"T">>, 2),
      Wire(<<"a">>, <<"o">>, <<"T">>, 0, <<"x">>, <<"i">>, <<"T">>, 0),
      Wire(<<"a">>, <<"o">>, <<"T">>, 0, <<>>, <<"i">>, <<"T">>, 0),
      Wire(<<"a">>, <<"o">>, <<"T">>, 0, <<"b">>, <<"o">>, <<"T">>, 0),
      Wire(<<"b">>, <<"p">>, <<"T">>, 0, <<"a">>, <<"i">>, <<"T">>, 0),
      Wire(<<"b">>, <<"p">>, <<"U">>, 0, <<"a">>, <<"j">>, <<"U">>, 0),
      Wire(<<"a">>, <<"p">>, <<"T">>, 0, <<"b">>, <<"p">>, <<"T">>, 0)>>

\* the connection lists: up to MaxWires of the connections, in file order
WireLists ==
    {SelectSeq(Wires, LAMBDA w : w \in chosen) :
        chosen \in {c \in SUBSET {Wires[k] : k \in 1..Len(Wires)} : Cardinality(c) <= MaxWires}}

InitCheck ==
    /\ pc = "parsed"
    /\ \E cs \in WireLists :
          xml = [instances |-> <<[name |-> <<"a">>, kind |-> <<"K">>],
                                 [name |-> <<"b">>, kind |-> <<"K">>]>>,
                 connections |-> cs,
                 spec |-> CreatedSpec,
                 decl |-> DeclaredChecked,
                 portObjs |-> PortObjsChecked]
    /\ model = <<>>
    /\ raised = FALSE
    /\ amalgam = <<>>
    /\ traits = <<>>
    /\ amalgam0 = <<>>
    /\ comp = <<>>
    /\ heap = <<>>
    /\ ports = <<>>
    /\ probe = 0
    /\ EngineIdle

\* Topology.get_name() of the reconciled topology
TopName == <<"T">>

\* ".".join(tokens)
RECURSIVE Join(_)
Join(tokens) ==
    IF tokens = <<>> THEN <<>>
    ELSE IF Len(tokens) = 1 THEN tokens[1]
    ELSE tokens[1] \o <<".">> \o Join(Tail(tokens))

\* "{}".format(value) of an index
Format(v) == IF v.k = "int" THEN <<Digit(v.n)>> ELSE <<"N", "o", "n", "e">>

\* CheckBase.get_standard_identifier (check.py lines 104-119); an argument is
\* <<>> for None and <<object>> otherwise, the topology being its name
StandardIdentifier(topology, component, port) ==
    LET tokens == topology
                  \o [k \in 1..Len(component) |-> component[k].attrs["_Component__name"].s]
                  \o [k \in 1..Len(port) |-> Name(port[k]).s]
    IN  Join(tokens)
        \o (IF port # <<>> THEN <<":">> \o Format(SourceNum(port[1])) ELSE <<>>)

\* get_comp_by_name (patcher.py lines 251-258): the components of that name,
\* the exception for several of them, the position of the one, 0 for None
CompsByName(m, name) == {i \in 1..Len(m) : PyEq(m[i].attrs["_Component__name"], name)}
CompByNameRaises(m, name) == Cardinality(CompsByName(m, name)) > 1
CompByName(m, name) == IF CompsByName(m, name) = {} THEN 0 ELSE Min(CompsByName(m, name))

\* the positions <<component, port>> the two loops of a check visit, in order
RECURSIVE Visits(_, _)
Visits(m, ci) ==
    IF ci > Len(m) THEN <<>>
    ELSE [pi \in 1..Len(m[ci].ports) |-> <<ci, pi>>] \o Visits(m, ci + 1)

\* PortCollision.get_identifiers (collisions.py lines 23-27)
CollisionSeverities == ("array-port-collision" :> ERROR)

\* collisions.py lines 34-51 for one port, port_mappings holding the keys
\* mappings: [skip], [raises] for an exception that leaves run, or the
\* standard identifier of the target slot
CollisionStep(m, port) ==
    LET target_port == port["_Port__target_port"]
        target_component == port["_Port__target_comp"]
        tc == CompByName(m, target_component)
        tp == IF tc = 0 THEN 0
              ELSE PortByName(m[tc].ports, target_port, port["_Port__target_num"])
        target_max_num == m[tc].ports[tp]["_Port__max_number"]
    IN  IF IsNone(port["_Port__direction"]) THEN [what |-> "raises", id |-> <<>>]
        ELSE IF Lower(port["_Port__direction"].s) = LowerInput
                \/ IsNone(target_port) \/ IsNone(target_component)
        THEN [what |-> "skip", id |-> <<>>]
        ELSE IF CompByNameRaises(m, target_component) \/ tc = 0 \/ tp = 0
        THEN [what |-> "raises", id |-> <<>>]
        ELSE IF IsNone(target_max_num) \/ ToInt(target_max_num) <= 1
        THEN [what |-> "skip", id |-> <<>>]
        ELSE [what |-> "slot",
              id |-> StandardIdentifier(<<TopName>>, <<m[tc]>>, <<m[tc].ports[tp]>>)]

\* PortCollision.run (collisions.py lines 29-52), the loops from visit k on:
\* [raised, problems]
RECURSIVE CollisionFrom(_, _, _, _, _)
CollisionFrom(m, visits, k, port_mappings, problems) ==
    IF k > Len(visits) THEN [raised |-> FALSE, problems |-> problems]
    ELSE LET step == CollisionStep(m, m[visits[k][1]].ports[visits[k][2]])
         IN  IF step.what = "raises" THEN [raised |-> TRUE, problems |-> problems]
             ELSE IF step.what = "skip"
             THEN CollisionFrom(m, visits, k + 1, port_mappings, problems)
             ELSE CollisionFrom(m, visits, k + 1, port_mappings \cup {step.id},
                     IF step.id \in port_mappings
                     THEN AddProblem(CollisionSeverities, problems,
                                     "array-port-collision", step.id).problems
                     ELSE problems)

\* PortCollision().run(result, model, []) on the reconciled topology
PortCollisionRun ==
    /\ pc = "reconciled"
    /\ LET run == CollisionFrom(model, Visits(model, 1), 1, {}, <<>>)
       IN  /\ result' = run.problems
           /\ pc' = IF run.raised THEN "collision_raised" ELSE "collision_checked"
    /\ UNCHANGED <<loaderVars, model, args, ix, all_clear, success, log, ret>>

\* PortConnections.get_identifiers (connected.py lines 13-20)
ConnectionSeverities ==
    ("port-not-connected" :> WARNING)
    @@ ("invalid-target-component-in-connection" :> ERROR)
    @@ ("invalid-target-port-in-connection" :> ERROR)
    @@ ("invalid-model-specification" :> ERROR)
    @@ ("conflicting-port-types-in-connection" :> ERROR)
    @@ ("conflicting-port-directions-in-connection" :> ERROR)

\* a type comparison that takes Serial for a type like the others
MutTypesConflictSerial(ptype, ttype) == ~PyEq(ptype, ttype)

\* connected.py line 57: the condition of the type conflict
TypesConflict(ptype, ttype) ==
    ~(PyEq(ptype, PyStr(SerialStr)) \/ PyEq(ttype, PyStr(SerialStr)) \/ PyEq(ptype, ttype))

\* a test for a missing target that takes the empty name for a component
MutNotConnectedNoneOnly(port) == IsNone(port["_Port__target_comp"])

\* connected.py line 27: the port has no target component
NotConnected(port) ==
    IsNone(port["_Port__target_comp"]) \/ PyEq(port["_Port__target_comp"], PyStr(<<>>))

\* connected.py lines 27-65 for the port at position pi of component ci:
\* [what, identifier, module], what being "add" for a call of add_problem,
\* "none" for no problem and "raises" for an exception that leaves run
ConnectionStep(m, ci, pi) ==
    LET component == m[ci]
        port == component.ports[pi]
        here == StandardIdentifier(<<TopName>>, <<component>>, <<port>>)
        tc == CompByName(m, port["_Port__target_comp"])
        tp == IF tc = 0 THEN 0
              ELSE PortByName(m[tc].ports, port["_Port__target_port"], port["_Port__target_num"])
        target_port == m[tc].ports[tp]
        max_num == IF IsNone(target_port["_Port__max_number"]) THEN 1
                   ELSE ToInt(target_port["_Port__max_number"])
        Add(ident, module) == [what |-> "add", identifier |-> ident, module |-> module]
    IN  IF NotConnected(port) THEN Add("port-not-connected", here)
        ELSE IF CompByNameRaises(m, port["_Port__target_comp"])
        THEN Add("invalid-model-specification", StandardIdentifier(<<>>, <<>>, <<>>))
        ELSE IF tc = 0 THEN Add("invalid-target-component-in-connection", here)
        ELSE IF tp = 0 THEN Add("invalid-target-port-in-connection", here)
        ELSE IF port["_Port__target_num"].k # "int"
        THEN [what |-> "raises", identifier |-> "", module |-> <<>>]
        ELSE IF max_num <= port["_Port__target_num"].n
        THEN Add("invalid-target-port-in-connection", here)
        ELSE IF TypesConflict(port["_Port__ptype"], target_port["_Port__ptype"])
        THEN Add("conflicting-port-types-in-connection", here)
        ELSE IF PyEq(port["_Port__direction"], target_port["_Port__direction"])
        THEN Add("conflicting-port-directions-in-connection", here)
        ELSE [what |-> "none", identifier |-> "", module |-> <<>>]

\* PortConnections.run (connected.py lines 22-66), the loops from visit k on:
\* [raised, problems, at], at[j] being the visit problems[j] was added in
RECURSIVE ConnectionsFrom(_, _, _, _, _)
ConnectionsFrom(m, visits, k, problems, at) ==
    IF k > Len(visits) THEN [raised |-> FALSE, problems |-> problems, at |-> at]
    ELSE LET step == ConnectionStep(m, visits[k][1], visits[k][2])
         IN  IF step.what = "raises" THEN [raised |-> TRUE, problems |-> problems, at |-> at]
             ELSE IF step.what = "none"
             THEN ConnectionsFrom(m, visits, k + 1, problems, at)
             ELSE ConnectionsFrom(m, visits, k + 1,
                     AddProblem(ConnectionSeverities, problems,
                                step.identifier, step.module).problems,
                     Append(at, visits[k]))

\* PortConnections().run(result, model, []) on the reconciled topology; log
\* keeps the port each problem was added for
PortConnectionsRun ==
    /\ pc = "reconciled"
    /\ LET run == ConnectionsFrom(model, Visits(model, 1), 1, <<>>, <<>>)
       IN  /\ result' = run.problems
           /\ log' = run.at
           /\ pc' = IF run.raised THEN "connections_raised" ELSE "connections_checked"
    /\ UNCHANGED <<loaderVars, model, args, ix, all_clear, success, ret>>

NextCheck ==
    \/ TopologyLoaderReturns
    \/ TopologyLoaderFails
    \/ PortCollisionRun
    \/ PortConnectionsRun

SpecCheck == InitCheck /\ [][NextCheck]_vars

---------------------------------------------------------------------------
(* The check CommandPorts (checks/command_ports.py), run on a topology in  *)
(* which a component c is wired to a command dispatcher d.  The methods    *)
(* get_comp_by_name and get_port_by_name of the model objects are the      *)
(* lookups of model/patcher.py.                                            *)

\* largest index of a port array of the dispatcher
MaxIndex == 2

CmdRegStr == <<"C", "m", "d", "R", "e", "g">>
CmdStr == <<"C", "m", "d">>
CmdResponseStr == <<"C", "m", "d", "R", "e", "s", "p", "o", "n", "s", "e">>

\* CommandPorts.CMD_TYPES (command_ports.py line 10)
CmdTypes ==
    (CmdRegStr :> LowerOutput) @@ (CmdStr :> LowerInput) @@ (CmdResponseStr :> LowerOutput)

\* CommandPorts.get_identifiers (command_ports.py lines 18-22)
CommandSeverities ==
    ("port-not-connected" :> WARNING)
    @@ ("command-ports-not-parallel" :> ERROR)
    @@ ("invalid-target-port-in-connection" :> ERROR)

\* "n/a"
NotApplicable == PyStr(<<"n", "/", "a">>)

\* command_ports.py lines 30-50 for the port at position pi of component
\* ci: [what, identifier, role, target], what being "skip" for a port the
\* check passes over, "add" for a call of add_problem, "raises" for an
\* exception that leaves run and "map" for an assignment to the mapping of
\* the component; target is <<>> for None and <<port>> otherwise
CommandStep(m, ci, pi) ==
    LET port == m[ci].ports[pi]
        port_type == port["_Port__ptype"]
        port_dir == port["_Port__direction"]
        port_target_comp == port["_Port__target_comp"]
        port_target_port == port["_Port__target_port"]
        port_target_type == port["_Port__target_type"]
        tc == CompByName(m, port_target_comp)
        tp == PortByName(m[tc].ports, port_target_port, port["_Port__target_num"])
        Step(what, ident, target) ==
            [what |-> what, identifier |-> ident, role |-> port_type.s, target |-> target]
    IN  IF ~IsStr(port_type) \/ port_type.s \notin DOMAIN CmdTypes
        THEN Step("skip", "", <<>>)
        ELSE IF ~IsStr(port_dir) THEN Step("raises", "", <<>>)
        ELSE IF Lower(port_dir.s) # CmdTypes[port_type.s] THEN Step("skip", "", <<>>)
        ELSE IF IsNone(port_target_comp) \/ IsNone(port_target_port)
        THEN Step("add", "port-not-connected", <<>>)
        ELSE IF ~PyEq(port_target_type, PyStr(SerialStr)) /\ ~PyEq(port_target_type, port_type)
        THEN Step("add", "invalid-target-port-in-connection", <<>>)
        ELSE IF CompByNameRaises(m, port_target_comp) \/ tc = 0
        THEN Step("raises", "", <<>>)
        ELSE Step("map", "", IF tp = 0 THEN <<>> ELSE <<m[tc].ports[tp]>>)

\* command_ports.py lines 29-50, the inner loop from port pi on: st is
\* [raised, problems, cited, values], values being the mapping of the
\* component and cited the indices each problem's message cites
RECURSIVE CommandPortsOf(_, _, _, _)
CommandPortsOf(m, ci, pi, st) ==
    IF pi > Len(m[ci].ports) THEN st
    ELSE LET step == CommandStep(m, ci, pi)
             here == StandardIdentifier(<<TopName>>, <<m[ci]>>, <<m[ci].ports[pi]>>)
         IN  IF step.what = "raises" THEN [st EXCEPT !.raised = TRUE]
             ELSE IF step.what = "skip" THEN CommandPortsOf(m, ci, pi + 1, st)
             ELSE IF step.what = "add"
             THEN CommandPortsOf(m, ci, pi + 1,
                     [st EXCEPT !.problems = AddProblem(CommandSeverities, @,
                                                        step.identifier, here).problems,
                                !.cited = Append(@, <<>>)])
             ELSE CommandPortsOf(m, ci, pi + 1,
                     [st EXCEPT !.values = [@ EXCEPT ![step.role] = step.target]])

\* self.component_mappings[name] = entry: a dict keeps the place of a key
\* it already holds
SetMapping(mappings, entry) ==
    IF \E k \in 1..Len(mappings) : mappings[k].name = entry.name
    THEN [k \in 1..Len(mappings) |->
             IF mappings[k].name = entry.name THEN entry ELSE mappings[k]]
    ELSE Append(mappings, entry)

\* command_ports.py lines 26-50, the outer loop from component ci on: st is
\* [raised, problems, cited, mappings]
RECURSIVE CommandCollect(_, _, _)
CommandCollect(m, ci, st) ==
    IF ci > Len(m) \/ st.raised THEN st
    ELSE LET Mapped(inner) ==
                 CommandCollect(m, ci + 1,
                     [raised |-> inner.raised, problems |-> inner.problems,
                      cited |-> inner.cited,
                      mappings |-> SetMapping(st.mappings,
                                      [name |-> m[ci].attrs["_Component__name"],
                                       values |-> inner.values, component |-> ci])])
         IN  Mapped(CommandPortsOf(m, ci, 1,
                        [raised |-> FALSE, problems |-> st.problems, cited |-> st.cited,
                         values |-> [key \in DOMAIN CmdTypes |-> <<>>]]))

\* lines 58-60: "n/a" for None, the index of the target port otherwise
CommandNumber(target) == IF target = <<>> THEN NotApplicable ELSE SourceNum(target[1])

\* a test of parallelism that leaves the response port out
MutNotParallelRegCmd(reg, cmd, rsp) == ~PyEq(reg, cmd)

\* command_ports.py line 66
NotParallel(reg, cmd, rsp) == ~PyEq(reg, cmd) \/ ~PyEq(rsp, PyInt(0))

\* "{}".format(value) of an index or of "n/a"
FormatNumber(v) ==
    IF v.k = "int" THEN <<Digit(v.n)>> ELSE IF v.k = "str" THEN v.s ELSE <<"N", "o", "n", "e">>

\* "{},{},{}".format(reg, cmd, rsp) of line 68
Cited(reg, cmd, rsp) ==
    FormatNumber(reg) \o <<",">> \o FormatNumber(cmd) \o <<",">> \o FormatNumber(rsp)

\* command_ports.py lines 52-68 for one entry of the mappings: [add, cited,
\* module]
CommandVerdict(m, entry) ==
    LET component == m[entry.component]
        reg == CommandNumber(entry.values[CmdRegStr])
        cmd == CommandNumber(entry.values[CmdStr])
        rsp == CommandNumber(entry.values[CmdResponseStr])
        None == [add |-> FALSE, cited |-> <<>>, module |-> <<>>]
    IN  IF /\ PyEq(reg, NotApplicable) /\ PyEq(cmd, NotApplicable) /\ PyEq(rsp, NotApplicable)
           /\ PyNot(component.attrs["_Component__commands"])
        THEN None
        ELSE IF NotParallel(reg, cmd, rsp)
        THEN [add |-> TRUE, cited |-> Cited(reg, cmd, rsp),
              module |-> StandardIdentifier(<<TopName>>, <<component>>, <<>>)]
        ELSE None

\* command_ports.py lines 51-68, the loop from entry k of the mappings on
RECURSIVE CommandVerdicts(_, _, _, _)
CommandVerdicts(m, mappings, k, st) ==
    IF k > Len(mappings) THEN st
    ELSE LET verdict == CommandVerdict(m, mappings[k])
         IN  CommandVerdicts(m, mappings, k + 1,
                 IF verdict.add
                 THEN [st EXCEPT !.problems = AddProblem(CommandSeverities, @,
                                     "command-ports-not-parallel", verdict.module).problems,
                                 !.cited = Append(@, verdict.cited)]
                 ELSE st)

\* CommandPorts.run (command_ports.py lines 24-69): [raised, problems, cited]
CommandPortsChecked(m) ==
    LET Verdicts(collected) ==
            IF collected.raised THEN collected
            ELSE CommandVerdicts(m, collected.mappings, 1, collected)
    IN  Verdicts(CommandCollect(m, 1, [raised |-> FALSE, problems |-> <<>>,
                                       cited |-> <<>>, mappings |-> <<>>]))

\* the ways a command port of c is wired: no such port, no target, the slot
\* k of the dispatcher's array, a port of another type, a component the
\* topology does not instantiate
Wirings ==
    {[how |-> h, index |-> 0] : h \in {"absent", "unwired", "mistyped", "missing"}}
    \cup {[how |-> "slot", index |-> k] : k \in 0..MaxIndex}

\* the dispatcher's port a role is wired to
DispatcherPort(role) ==
    CASE role = CmdRegStr -> <<"r">>
      [] role = CmdStr -> <<"s">>
      [] role = CmdResponseStr -> <<"t">>

\* the port of c for a role, wired in the given way: a list of no or one port
CommandPort(name, role, direction, wiring) ==
    LET port == [NewPort(PyStr(name), PyStr(role), PyStr(direction), NoneV, NoneV)
                    EXCEPT !["_Port__source_num"] = PyInt(0)]
        Aimed(tcomp, ttype, tnum) ==
            [port EXCEPT !["_Port__target_comp"] = PyStr(tcomp),
                         !["_Port__target_port"] = PyStr(DispatcherPort(role)),
                         !["_Port__target_type"] = PyStr(ttype),
                         !["_Port__target_num"] = PyInt(tnum)]
    IN  CASE wiring.how = "absent" -> <<>>
          [] wiring.how = "unwired" -> <<port>>
          [] wiring.how = "mistyped" -> <<Aimed(<<"d">>, <<"T">>, 0)>>
          [] wiring.how = "missing" -> <<Aimed(<<"x">>, role, 0)>>
          [] OTHER -> <<Aimed(<<"d">>, role, wiring.index)>>

\* the arrays of the dispatcher: a registration input, a command output and
\* a response input per index
DispatcherPorts ==
    LET Slot(role, direction, k) ==
            [NewPort(PyStr(DispatcherPort(role)), PyStr(role), PyStr(direction), NoneV, NoneV)
                EXCEPT !["_Port__source_num"] = PyInt(k)]
    IN  [k \in 1..(MaxIndex + 1) |-> Slot(CmdRegStr, InputStr, k - 1)]
        \o [k \in 1..(MaxIndex + 1) |-> Slot(CmdStr, OutputStr, k - 1)]
        \o [k \in 1..(MaxIndex + 1) |-> Slot(CmdResponseStr, InputStr, k - 1)]

\* a component with its commands
Commanded(name, commands, plist) ==
    [attrs |-> NewComponent(PyStr(name), PyStr(<<"K">>), NoneV)
               @@ [_Component__commands |-> PyList(commands)],
     ports |-> plist]

InitCommands ==
    /\ pc = "wired"
    /\ \E reg \in Wirings, cmd \in Wirings, rsp \in Wirings, commands \in {<<>>, <<"c">>} :
          model = <<Commanded(<<"c">>, commands,
                              CommandPort(<<"r">>, CmdRegStr, OutputStr, reg)
                              \o CommandPort(<<"s">>, CmdStr, InputStr, cmd)
                              \o CommandPort(<<"t">>, CmdResponseStr, OutputStr, rsp)),
                    Commanded(<<"d">>, <<>>, DispatcherPorts)>>
    /\ LoaderIdle
    /\ EngineIdle

\* CommandPorts().run(result, model, []); log keeps the indices each
\* problem's message cites
CommandPortsRun ==
    /\ pc = "wired"
    /\ LET run == CommandPortsChecked(model)
       IN  /\ result' = run.problems
           /\ log' = run.cited
           /\ pc' = IF run.raised THEN "commands_raised" ELSE "commands_checked"
    /\ UNCHANGED <<loaderVars, model, args, ix, all_clear, success, ret>>

NextCommands == CommandPortsRun

SpecCommands == InitCommands /\ [][NextCommands]_vars

---------------------------------------------------------------------------
(* The check HubLinter (checks/hub.py).  A Topology object is [name,       *)
(* comps]; the caller's topology is the object 1 of the heap and           *)
(* local_model is the object copy.deepcopy returns.  A port object is      *)
(* named by its place: <<component, port>> in the component list of its    *)
(* topology.                                                               *)

PortInStr == <<"p", "o", "r", "t", "I", "n">>
PortOutStr == <<"p", "o", "r", "t", "O", "u", "t">>
BuffersInStr == <<"b", "u", "f", "f", "e", "r", "s", "I", "n">>
BuffersOutStr == <<"b", "u", "f", "f", "e", "r", "s", "O", "u", "t">>

\* HubLinter.PORT_PAIRS (hub.py line 34), the items in the order of the dict
PortPairs ==
    <<<<PortInStr, PortOutStr>>, <<PortOutStr, PortInStr>>,
      <<BuffersInStr, BuffersOutStr>>, <<BuffersOutStr, BuffersInStr>>>>

\* HubLinter.DELGATED_CHECKS (hub.py line 35) with their get_identifiers()
DelegatedChecks == <<CollisionSeverities, CommandSeverities>>

\* identifiers of the hub check that are all errors, whatever severity the
\* delegated check declares
MutSeveritiesAllErrors ==
    [key \in {"hub-colliding-ids", "hub-ports-unused", "hub-ports-not-connected",
              "hub-ports-not-parallel", "hub-port-directions-not-parallel",
              "hub-unused-ports-not-parallel"}
             \cup {"hub-" \o d : d \in DOMAIN DelegatedChecks[1] \cup DOMAIN DelegatedChecks[2]}
        |-> ERROR]

\* HubLinter.get_identifiers (hub.py lines 47-60)
HubSeverities ==
    LET Prefixed(severities) ==
            [key \in {"hub-" \o d : d \in DOMAIN severities} |->
                severities[CHOOSE d \in DOMAIN severities : key = "hub-" \o d]]
    IN  ("hub-colliding-ids" :> ERROR)
        @@ ("hub-ports-unused" :> WARNING)
        @@ ("hub-ports-not-connected" :> ERROR)
        @@ ("hub-ports-not-parallel" :> ERROR)
        @@ ("hub-port-directions-not-parallel" :> ERROR)
        @@ ("hub-unused-ports-not-parallel" :> ERROR)
        @@ Prefixed(DelegatedChecks[2]) @@ Prefixed(DelegatedChecks[1])

\* HubLinter.get_component_port (hub.py lines 63-68): the exception of
\* get_comp_by_name, and the place of the port, <<>> for None
ComponentPortRaises(m, port) == CompByNameRaises(m, port["_Port__target_comp"])
ComponentPort(m, port) ==
    LET tc == CompByName(m, port["_Port__target_comp"])
        tp == PortByName(m[tc].ports, port["_Port__target_port"], port["_Port__target_num"])
    IN  IF tc = 0 THEN <<>> ELSE IF tp = 0 THEN <<>> ELSE <<tc, tp>>

\* hub ports taken in the order of the hub's port list, not by their index
MutHubPortsInListOrder(m, hub_name, port_name) ==
    LET hub_object == m[CompByName(m, hub_name)]
        named == {i \in 1..Len(hub_object.ports) :
                     PyEq(Name(hub_object.ports[i]), PyStr(port_name))}
        max_number == ToInt(hub_object.ports[Min(named)]["_Port__max_number"])
        count == IF Cardinality(named) < max_number THEN Cardinality(named) ELSE max_number
        hub_ports == [k \in 1..count |->
                         CHOOSE i \in named : Cardinality({j \in named : j < i}) = k - 1]
    IN  [raised |-> FALSE,
         pairs |-> [k \in 1..count |->
                       [hub |-> hub_ports[k],
                        comp |-> ComponentPort(m, hub_object.ports[hub_ports[k]])]]]

\* HubLinter.get_sorted_hub_ports (hub.py lines 76-79) for one port name:
\* [raised, pairs], a pair being [hub, comp], the place of the hub port in
\* the hub's list and the place of the port attached to it
SortedHubPorts(m, hub_name, port_name) ==
    LET hub_object == m[CompByName(m, hub_name)]
        port_zero == PortByName(hub_object.ports, PyStr(port_name), PyInt(0))
        max_number == hub_object.ports[port_zero]["_Port__max_number"]
        hub_ports == [k \in 1..ToInt(max_number) |->
                         PortByName(hub_object.ports, PyStr(port_name), PyInt(k - 1))]
    IN  IF port_zero = 0 \/ IsNone(max_number) THEN [raised |-> TRUE, pairs |-> <<>>]
        ELSE IF \E k \in 1..Len(hub_ports) :
                    \/ hub_ports[k] = 0
                    \/ ComponentPortRaises(m, hub_object.ports[hub_ports[k]])
        THEN [raised |-> TRUE, pairs |-> <<>>]
        ELSE [raised |-> FALSE,
              pairs |-> [k \in 1..Len(hub_ports) |->
                            [hub |-> hub_ports[k],
                             comp |-> ComponentPort(m, hub_object.ports[hub_ports[k]])]]]

\* hub.py lines 100-104 and 157-161: the tuples (local_hub_port,
\* local_comp_port, remote_hub_port, remote_comp_port) of all port pairs, in
\* the order the loops visit them, from the item k of PORT_PAIRS on
RECURSIVE HubSequence(_, _, _, _, _)
HubSequence(local, local_hub_name, remote, remote_hub_name, k) ==
    IF k > Len(PortPairs) THEN <<>>
    ELSE LET Zip(local_port_pairs, remote_port_pairs) ==
                 [j \in 1..(IF Len(local_port_pairs) <= Len(remote_port_pairs)
                            THEN Len(local_port_pairs) ELSE Len(remote_port_pairs)) |->
                     [local_hub_port |-> local_port_pairs[j].hub,
                      local_comp_port |-> local_port_pairs[j].comp,
                      remote_hub_port |-> remote_port_pairs[j].hub,
                      remote_comp_port |-> remote_port_pairs[j].comp]]
         IN  Zip(SortedHubPorts(local, local_hub_name, PortPairs[k][1]).pairs,
                 SortedHubPorts(remote, remote_hub_name, PortPairs[k][2]).pairs)
             \o HubSequence(local, local_hub_name, remote, remote_hub_name, k + 1)

\* get_standard_identifier (check.py line 115) of a topology, a component
\* given by its name and a port: a str is its own name
Located(top, comp_name, port) ==
    StandardIdentifier(<<top.name>>, <<[attrs |-> [_Component__name |-> comp_name]]>>, <<port>>)

\* a test that takes a pair for unused when either side is
MutBothUnusedEither(local_comp_port, remote_comp_port) ==
    local_comp_port = <<>> \/ remote_comp_port = <<>>

\* hub.py line 114: the hub ports are disconnected on both ends
BothUnused(local_comp_port, remote_comp_port) ==
    local_comp_port = <<>> /\ remote_comp_port = <<>>

\* hub.py lines 108-152 for one tuple: [add, identifier, module]
AlignStep(local, local_hub_name, remote, remote_hub_name, t) ==
    LET local_hub_port == local.comps[CompByName(local.comps, local_hub_name)].ports[t.local_hub_port]
        remote_hub_port == remote.comps[CompByName(remote.comps, remote_hub_name)].ports[t.remote_hub_port]
        local_comp_port == local.comps[t.local_comp_port[1]].ports[t.local_comp_port[2]]
        remote_comp_port == remote.comps[t.remote_comp_port[1]].ports[t.remote_comp_port[2]]
        Add(ident, module) == [add |-> TRUE, identifier |-> ident, module |-> module]
    IN  IF ~PyEq(SourceNum(local_hub_port), SourceNum(remote_hub_port))
        THEN Add("hub-unused-ports-not-parallel",
                 Located(local, local_hub_name, local_hub_port))
        ELSE IF BothUnused(t.local_comp_port, t.remote_comp_port)
        THEN Add("hub-ports-unused", Located(local, local_hub_name, local_hub_port))
        ELSE IF t.local_comp_port # <<>> /\ t.remote_comp_port = <<>>
        THEN Add("hub-ports-not-connected",
                 Located(local, local_hub_port["_Port__target_comp"], local_comp_port))
        ELSE IF t.local_comp_port = <<>> /\ t.remote_comp_port # <<>>
        THEN Add("hub-ports-not-connected",
                 Located(remote, remote_hub_port["_Port__target_comp"], remote_comp_port))
        ELSE IF ~PyEq(local_comp_port["_Port__ptype"], remote_comp_port["_Port__ptype"])
        THEN Add("hub-ports-not-parallel",
                 Located(local, local_hub_port["_Port__target_comp"], local_comp_port))
        ELSE IF PyEq(local_hub_port["_Port__direction"], remote_hub_port["_Port__direction"])
        THEN Add("hub-port-directions-not-parallel",
                 Located(local, local_hub_name, local_hub_port))
        ELSE IF PyEq(local_comp_port["_Port__direction"], remote_comp_port["_Port__direction"])
        THEN Add("hub-port-directions-not-parallel",
                 Located(local, local_hub_port["_Port__target_comp"], local_comp_port))
        ELSE [add |-> FALSE, identifier |-> "", module |-> <<>>]

\* hub.py lines 100-152, the loops from tuple k on: result.problems
RECURSIVE Aligned(_, _, _, _, _, _, _)
Aligned(local, local_hub_name, remote, remote_hub_name, sequence, k, problems) ==
    IF k > Len(sequence) THEN problems
    ELSE LET step == AlignStep(local, local_hub_name, remote, remote_hub_name, sequence[k])
         IN  Aligned(local, local_hub_name, remote, remote_hub_name, sequence, k + 1,
                 IF step.add
                 THEN AddProblem(HubSeverities, problems, step.identifier, step.module).problems
                 ELSE problems)

\* the attributes of a port that refer to its target
TargetAttrs ==
    {"_Port__target_direction", "_Port__target_num", "_Port__target_type",
     "_Port__target_comp", "_Port__target_port"}

\* lines 166-170 and 180-184: the port takes the target of the hub port
Restrung(port, hub_port) ==
    [attr \in DOMAIN port |-> IF attr \in TargetAttrs THEN hub_port[attr] ELSE port[attr]]

\* lines 172-176 and 186-190: the hub port loses its target
Cleared(hub_port) ==
    [attr \in DOMAIN hub_port |-> IF attr \in TargetAttrs THEN NoneV ELSE hub_port[attr]]

\* hub.py lines 165 and 179: the condition of a rewrite
FuseWhen(port, other) == port # <<>>

\* hub.py lines 165-190 for one tuple, on the component lists [local, remote]
FuseStep(st, lh, rh, t) ==
    LET first ==
            IF FuseWhen(t.local_comp_port, t.remote_comp_port)
            THEN LET strung == [st EXCEPT
                         !.local[t.local_comp_port[1]].ports[t.local_comp_port[2]] =
                             Restrung(@, st.remote[rh].ports[t.remote_hub_port])]
                 IN  [strung EXCEPT !.remote[rh].ports[t.remote_hub_port] = Cleared(@)]
            ELSE st
    IN  IF FuseWhen(t.remote_comp_port, t.local_comp_port)
        THEN LET strung == [first EXCEPT
                     !.remote[t.remote_comp_port[1]].ports[t.remote_comp_port[2]] =
                         Restrung(@, first.local[lh].ports[t.local_hub_port])]
             IN  [strung EXCEPT !.local[lh].ports[t.local_hub_port] = Cleared(@)]
        ELSE first

\* hub.py lines 157-190, the loops from tuple k on
RECURSIVE Fused(_, _, _, _, _)
Fused(st, lh, rh, sequence, k) ==
    IF k > Len(sequence) THEN st
    ELSE Fused(FuseStep(st, lh, rh, sequence[k]), lh, rh, sequence, k + 1)

\* "--COMBINED--"
CombinedName == <<"-", "-", "C", "O", "M", "B", "I", "N", "E", "D", "-", "-">>

\* hub.py lines 155-190: the combined topology
Combined(local, local_hub_name, remote, remote_hub_name, sequence) ==
    LET st == Fused([local |-> local.comps, remote |-> remote.comps],
                    CompByName(local.comps, local_hub_name),
                    CompByName(remote.comps, remote_hub_name), sequence, 1)
    IN  [name |-> CombinedName, comps |-> st.local \o st.remote]

\* hub.py line 30: the identifier in the namespace of the hub
Remapped(ident) == "hub-" \o ident

\* HubResultDelegator.add_problem (hub.py lines 28-30) for the problems a
\* delegated check adds on the topology of that name, in order: [raised,
\* problems], raised when the assert of CheckResult.add_problem fails
RECURSIVE Delegate(_, _, _, _)
Delegate(problems, name, added, k) ==
    IF k > Len(added) THEN [raised |-> FALSE, problems |-> problems]
    ELSE LET passed == AddProblem(HubSeverities, problems, Remapped(added[k].identifier),
                                  name \o SubSeq(added[k].module, Len(TopName) + 1,
                                                 Len(added[k].module)))
         IN  IF passed.raised THEN passed
             ELSE Delegate(passed.problems, name, added, k + 1)

\* hub.py lines 192-193: PortCollision and CommandPorts run on the combined
\* topology: [raised, problems]
Delegated(problems, combined) ==
    LET Commands(collided, commands) ==
            LET commanded == Delegate(collided.problems, combined.name, commands.problems, 1)
            IN  [raised |-> commanded.raised \/ commands.raised,
                 problems |-> commanded.problems]
        Collisions(collision) ==
            LET collided == Delegate(problems, combined.name, collision.problems, 1)
            IN  IF collided.raised \/ collision.raised
                THEN [raised |-> TRUE, problems |-> collided.problems]
                ELSE Commands(collided, CommandPortsChecked(combined.comps))
    IN  Collisions(CollisionFrom(combined.comps, Visits(combined.comps, 1), 1, {}, <<>>))

\* hub.py line 106: the four ports of a tuple as the loop of the alignment
\* finds them, a port being <<>> for None and <<port>> otherwise
Visit(local, local_hub_name, remote, remote_hub_name, t) ==
    [places |-> t,
     local_hub_port |->
         <<local.comps[CompByName(local.comps, local_hub_name)].ports[t.local_hub_port]>>,
     remote_hub_port |->
         <<remote.comps[CompByName(remote.comps, remote_hub_name)].ports[t.remote_hub_port]>>,
     local_comp_port |->
         IF t.local_comp_port = <<>> THEN <<>>
         ELSE <<local.comps[t.local_comp_port[1]].ports[t.local_comp_port[2]]>>,
     remote_comp_port |->
         IF t.remote_comp_port = <<>> THEN <<>>
         ELSE <<remote.comps[t.remote_comp_port[1]].ports[t.remote_comp_port[2]]>>]

\* HubLinter.run (hub.py lines 85-194) with local_model already copied:
\* extras is [path, local_hub_name, remote_hub_name], path being the parsed
\* remote topology XML; the result is [raised, problems, local, visited],
\* local being local_model when run is left and visited the tuples the loop
\* of the alignment has gone through
HubLinterChecked(local, extras) ==
    LET Raise(problems, left) ==
            [raised |-> TRUE, problems |-> problems, local |-> left, visited |-> <<>>]
        Returned(remote, sequence, combined, delegated) ==
            [raised |-> delegated.raised, problems |-> delegated.problems,
             local |-> combined,
             visited |-> [k \in 1..Len(sequence) |->
                             Visit(local, extras.local_hub_name,
                                   remote, extras.remote_hub_name, sequence[k])]]
        Fusing(remote, sequence, aligned, combined) ==
            Returned(remote, sequence, combined, Delegated(aligned, combined))
        Aligning(remote, sequence) ==
            Fusing(remote, sequence,
                   Aligned(local, extras.local_hub_name, remote, extras.remote_hub_name,
                           sequence, 1, <<>>),
                   Combined(local, extras.local_hub_name, remote, extras.remote_hub_name,
                            sequence))
        Validating(failed, remote) ==
            IF failed THEN Raise(<<>>, local)
            ELSE IF CompByNameRaises(local.comps, extras.local_hub_name)
                    \/ CompByName(local.comps, extras.local_hub_name) = 0
            THEN Raise(<<>>, local)
            ELSE IF CompByNameRaises(remote.comps, extras.remote_hub_name)
                    \/ CompByName(remote.comps, extras.remote_hub_name) = 0
            THEN Raise(<<>>, local)
            ELSE IF \E k \in 1..Len(PortPairs) :
                        \/ SortedHubPorts(local.comps, extras.local_hub_name,
                                          PortPairs[k][1]).raised
                        \/ SortedHubPorts(remote.comps, extras.remote_hub_name,
                                          PortPairs[k][1]).raised
            THEN Raise(<<>>, local)
            ELSE Aligning(remote, HubSequence(local.comps, extras.local_hub_name,
                                              remote.comps, extras.remote_hub_name, 1))
        Loaded(loaded) ==
            Validating(loaded.raised, [name |-> extras.path.name, comps |-> loaded.model])
    IN  Loaded(TopologyLoaded(extras.path))

\* most connections a topology of a hub pair declares
MaxHubWires == 2

\* the ports CompFactory creates for the component XML of the kind K of a
\* hub pair's topologies: the four port arrays of a hub, an output array o,
\* an input array i, an input j of another type and a command input c
DeclaredHub ==
    <<NewPort(PyStr(PortInStr), PyStr(SerialStr), PyStr(InputStr), NoneV, PyStr(<<"2">>)),
      NewPort(PyStr(PortOutStr), PyStr(SerialStr), PyStr(OutputStr), NoneV, PyStr(<<"2">>)),
      NewPort(PyStr(BuffersInStr), PyStr(<<"B">>), PyStr(InputStr), NoneV, PyStr(<<"1">>)),
      NewPort(PyStr(BuffersOutStr), PyStr(<<"B">>), PyStr(OutputStr), NoneV, PyStr(<<"1">>)),
      NewPort(PyStr(<<"o">>), PyStr(<<"T">>), PyStr(OutputStr), NoneV, PyStr(<<"2">>)),
      NewPort(PyStr(<<"i">>), PyStr(<<"T">>), PyStr(InputStr), NoneV, PyStr(<<"2">>)),
      NewPort(PyStr(<<"j">>), PyStr(<<"U">>), PyStr(InputStr), NoneV, PyStr(<<"1">>)),
      NewPort(PyStr(<<"c">>), PyStr(CmdStr), PyStr(InputStr), NoneV, PyStr(<<"1">>))>>

\* port_objs (lines 127-128) for the port types of the kind K
PortObjsHub ==
    [ty \in {<<"T">>, <<"U">>, <<"B">>, SerialStr, CmdStr} |->
        NewPort(NoneV, PyStr(ty), NoneV, NoneV, NoneV)]

\* the connections of the topology of a deployment with the component cname
\* and the hub hub: two outputs of cname into the hub, and the two outputs of
\* the hub into the slot 0 of the array i (local) or into i and j (remote)
HubWires(cname, hub, local) ==
    <<Wire(cname, <<"o">>, <<"T">>, 0, hub, PortInStr, SerialStr, 0),
      Wire(cname, <<"o">>, <<"T">>, 1, hub, PortInStr, SerialStr, 1),
      Wire(hub, PortOutStr, SerialStr, 0, cname, <<"i">>, <<"T">>, 0),
      IF local THEN Wire(hub, PortOutStr, SerialStr, 1, cname, <<"i">>, <<"T">>, 0)
      ELSE Wire(hub, PortOutStr, SerialStr, 1, cname, <<"j">>, <<"U">>, 0)>>

\* the parsed XML documents of such a topology, with up to most connections
HubDocs(name, cname, hub, local, most) ==
    {[name |-> name,
      instances |-> <<[name |-> cname, kind |-> <<"K">>], [name |-> hub, kind |-> <<"K">>]>>,
      connections |-> SelectSeq(HubWires(cname, hub, local), LAMBDA w : w \in chosen),
      spec |-> CreatedSpec @@ [_Component__commands |-> PyList(<<>>)],
      decl |-> DeclaredHub,
      portObjs |-> PortObjsHub] :
        chosen \in {c \in SUBSET {HubWires(cname, hub, local)[k] : k \in 1..4} :
                        Cardinality(c) <= most}}

\* the ways a hub pair is named: the remote component has its own name or
\* the name of the local one, and each hub name given on the command line
\* names the hub or nothing
HubNamings ==
    {[remote_comp |-> <<"b">>, local_hub_name |-> <<"h">>, remote_hub_name |-> <<"g">>],
     [remote_comp |-> <<"a">>, local_hub_name |-> <<"h">>, remote_hub_name |-> <<"g">>],
     [remote_comp |-> <<"b">>, local_hub_name |-> <<"x">>, remote_hub_name |-> <<"g">>],
     [remote_comp |-> <<"b">>, local_hub_name |-> <<"h">>, remote_hub_name |-> <<"x">>]}

\* the name of the remote topology
RemoteName == <<"R">>

\* the characters of a string
Chars(str) == [i \in 1..Len(str) |-> SubSeq(str, i, i)]

\* HubLinter.get_extra_arguments (hub.py lines 38-44): the keys
HubExtraArguments ==
    <<Chars("hub-remote-topology"), Chars("hub-local-hub-name"), Chars("hub-remote-hub-name")>>

\* the parsed command line with the three options of the hub check
HubArguments(local_hub_name, remote_hub_name) ==
    [none |-> FALSE,
     dict |-> (Chars("hub_remote_topology") :> PyStr(<<"r">>))
              @@ (Chars("hub_local_hub_name") :> PyStr(local_hub_name))
              @@ (Chars("hub_remote_hub_name") :> PyStr(remote_hub_name))]

\* the class HubLinter as run_all sees it: its name, its extra arguments,
\* its identifiers, and what HubLinter().run(result, model, filled_args) does
\* on the topology, path naming the remote topology XML
HubChecker(topology, path, arguments) ==
    LET Does(run) ==
            [raises |-> run.raised,
             adds |-> [k \in 1..Len(run.problems) |->
                          [identifier |-> run.problems[k].identifier,
                           module |-> run.problems[k].module]]]
        Filled(extras) ==
            IF Len(extras) # 3 THEN [raises |-> FALSE, adds |-> <<>>]
            ELSE Does(HubLinterChecked(topology, [path |-> path, local_hub_name |-> extras[2],
                                                  remote_hub_name |-> extras[3]]))
    IN  [name |-> "HubLinter", extra |-> HubExtraArguments, severities |-> HubSeverities,
         does |-> Filled(FilledArgs(arguments,
                             [k \in 1..3 |-> ReplaceDash(HubExtraArguments[k])]))]

\* a check class registered after HubLinter, which finds nothing or an error
OtherCheckers ==
    {[name |-> "B", extra |-> <<>>, severities |-> Severities, does |-> d] :
        d \in {[raises |-> FALSE, adds |-> <<>>],
               [raises |-> FALSE, adds |-> <<[identifier |-> "e", module |-> ModuleTa]>>]}}

\* the check is called directly, or by run_all with the parsed command line
InitHub ==
    /\ \E naming \in HubNamings, entry \in {"hub", "run_all"} :
          LET proper == naming = [remote_comp |-> <<"b">>, local_hub_name |-> <<"h">>,
                                  remote_hub_name |-> <<"g">>]
              most == IF proper /\ entry = "hub" THEN MaxHubWires ELSE 1
          IN  \E ldoc \in HubDocs(TopName, <<"a">>, <<"h">>, TRUE, most),
                 rdoc \in HubDocs(RemoteName, naming.remote_comp, <<"g">>, FALSE, most) :
                    /\ \E loaded \in {TopologyLoaded(ldoc)} :
                          /\ ~loaded.raised
                          /\ heap = <<[name |-> TopName, comps |-> loaded.model]>>
                    /\ xml = rdoc
                    /\ pc = entry
                    /\ \/ /\ entry = "hub"
                          /\ args = [local_hub_name |-> PyStr(naming.local_hub_name),
                                     remote_hub_name |-> PyStr(naming.remote_hub_name)]
                          /\ ix = 0
                       \/ /\ entry = "run_all"
                          /\ \E arguments \in {[none |-> TRUE, dict |-> <<>>],
                                                HubArguments(naming.local_hub_name,
                                                             naming.remote_hub_name)},
                                other \in OtherCheckers :
                                args = [cls |-> "CheckBase",
                                        registered |-> <<HubChecker(heap[1], rdoc, arguments),
                                                         other>>,
                                        excluded |-> {}, filters |-> <<>>,
                                        arguments |-> arguments]
                          /\ ix = 1
    /\ model = heap[1].comps
    /\ amalgam = <<>>
    /\ traits = <<>>
    /\ amalgam0 = <<>>
    /\ raised = FALSE
    /\ comp = <<>>
    /\ ports = <<>>
    /\ probe = 0
    /\ all_clear = TRUE
    /\ success = TRUE
    /\ result = <<>>
    /\ log = <<>>
    /\ ret = NoneV

\* a local_model that is the caller's topology itself
MutLocalModelAlias(h, id) == [heap |-> h, id |-> id]

\* hub.py line 87: local_model = copy.deepcopy(model)
LocalModel(h, id) == [heap |-> Append(h, h[id]), id |-> Len(h) + 1]

\* HubLinter().run(result, model, extras) on a fresh CheckResult, model being
\* the object 1 of the heap; log keeps the tuples of the alignment
HubLinterRun ==
    /\ pc = "hub"
    /\ \E copy \in {LocalModel(heap, 1)} :
        \E run \in {HubLinterChecked(copy.heap[copy.id],
                        [path |-> xml, local_hub_name |-> args.local_hub_name,
                         remote_hub_name |-> args.remote_hub_name])} :
           /\ heap' = IF TopologyLoaded(xml).raised THEN heap
                      ELSE [copy.heap EXCEPT ![copy.id] = run.local]
           /\ result' = run.problems
           /\ log' = run.visited
           /\ pc' = IF run.raised THEN "hub_raised" ELSE "hub_returned"
    /\ model' = heap'[1].comps
    /\ UNCHANGED <<amalgam, traits, amalgam0, raised, comp, ports, probe, xml,
                   args, ix, all_clear, success, ret>>

NextHub ==
    \/ HubLinterRun
    \/ RunAllSkips
    \/ RunAllRuns
    \/ RunAllCatches
    \/ RunAllReturns

SpecHub == InitHub /\ [][NextHub]_vars

---------------------------------------------------------------------------
(* Vocabulary of the check engine's contract, stated on the inputs of the  *)
(* call.                                                                   *)

\* the call of run_all has ended
RunAllDone == pc \in {"returned", "raised"}

\* the caller supplies every extra parameter the check class declares
Supplied(checker) ==
    \A k \in 1..Len(checker.extra) :
        /\ ~args.arguments.none
        /\ ReplaceDash(checker.extra[k]) \in DOMAIN args.arguments.dict
        /\ ~IsNone(args.arguments.dict[ReplaceDash(checker.extra[k])])

\* the run of the check class ends in an uncaught failure
Fails(checker) ==
    \/ checker.does.raises
    \/ \E k \in 1..Len(checker.does.adds) :
          checker.does.adds[k].identifier \notin DOMAIN checker.severities

\* a filter rule matches the problem: same identifier, and one of the rule's
\* regular expressions matches the location
RuleMatches(rule, add) ==
    /\ rule.identifier = add.identifier
    /\ \E k \in 1..Len(rule.specifiers) : Search(rule.specifiers[k], add.module)

\* the problem survives the filters
Survives(add) == \A f \in 1..Len(args.filters) : ~RuleMatches(args.filters[f], add)

\* the positions, in the resolved order, of the checks that run
Running == {j \in 1..Len(Checkers) : Supplied(Checkers[j])}

\* C11: run_all returns pass if and only if every check that ran finished
\* without an uncaught failure and had no surviving problem; a surviving
\* warning fails the run as an error does, and filtered problems do not count.
C11_PassIffNoSurvivingProblem ==
    (pc = "returned" /\ args.cls = "CheckBase") =>
        (ret = PyBool(TRUE) <=>
            \A j \in Running :
                /\ ~Fails(Checkers[j])
                /\ \A k \in 1..Len(Checkers[j].does.adds) : ~Survives(Checkers[j].does.adds[k]))

\* C11 witness: run_all returned fail although no check failed and the only
\* surviving problems are warnings, while an error was filtered
C11_Witness ==
    /\ pc = "returned" /\ args.cls = "CheckBase"
    /\ ret = PyBool(FALSE)
    /\ \A j \in 1..Len(log) :
          /\ log[j].what # "raise"
          /\ \A k \in 1..Len(log[j].problems) : log[j].problems[k].severity = WARNING
    /\ \E j \in Running : \E k \in 1..Len(Checkers[j].does.adds) :
          /\ ~Survives(Checkers[j].does.adds[k])
          /\ Checkers[j].severities[Checkers[j].does.adds[k].identifier] = ERROR

\* C12: when the call has ended, every non-excluded check has had its turn
\* once, in the resolved order, the non-skipped ones have run, and a check
\* that raised has made the call return fail without ending it.
C12_FailureDoesNotAbort ==
    RunAllDone =>
        /\ Len(log) = Len(Checkers)
        /\ \A j \in 1..Len(log) :
              /\ log[j].name = Checkers[j].name
              /\ (args.cls = "BaseCheck" \/ Supplied(Checkers[j])) => log[j].what # "skip"
        /\ (\E j \in 1..Len(log) : log[j].what = "raise") =>
              (pc = "returned" /\ ret = PyBool(FALSE))

\* C13: a check whose declared extra parameters are not all supplied is
\* skipped, it is not run and adds no problem, and when nothing but skips
\* happened the call returns pass; a check that declares no extra parameter
\* is never skipped.
C13_MissingParametersSkip ==
    args.cls = "CheckBase" =>
        /\ \A j \in 1..Len(log) :
              /\ ~Supplied(Checkers[j]) => (log[j].what = "skip" /\ log[j].problems = <<>>)
              /\ Checkers[j].extra = <<>> => log[j].what # "skip"
        /\ (pc = "returned" /\ \A j \in 1..Len(log) : log[j].what = "skip")
              => ret = PyBool(TRUE)

\* C13 witness: run_all returned pass after it skipped a check whose run
\* would have added a problem, for a namespace that lacks the value
C13_Witness ==
    /\ pc = "returned" /\ args.cls = "CheckBase"
    /\ ret = PyBool(TRUE)
    /\ ~args.arguments.none
    /\ \E j \in 1..Len(log) : log[j].what = "skip" /\ Checkers[j].does.adds # <<>>

\* the positions of the problems no rule removes
KeptPositions == {i \in 1..Len(args.problems) : Survives(args.problems[i])}

\* C14: get_filtered_problems removes a problem exactly when a rule has the
\* problem's identifier and one of the rule's regular expressions matches
\* the problem's location; the other problems are returned in their original
\* order, and the list of the result object is as it was.
C14_FilterRemovesMatching ==
    pc = "filtered" =>
        /\ Len(ret.s) = Cardinality(KeptPositions)
        /\ \A i \in KeptPositions :
              ret.s[Cardinality({j \in KeptPositions : j <= i})] = args.problems[i]
        /\ result = args.problems

\* C14 witness: of three problems the middle one is removed by a rule whose
\* second regular expression matches its location, the first has the rule's
\* identifier at a location the rule does not match, and the last has
\* another identifier at a location the rule matches
C14_Witness ==
    /\ pc = "filtered"
    /\ Len(args.problems) = 3 /\ Len(args.filters) = 1
    /\ KeptPositions = {1, 3}
    /\ args.problems[1].identifier = args.filters[1].identifier
    /\ args.problems[3].identifier # args.filters[1].identifier
    /\ args.problems[3].module = args.problems[2].module
    /\ Len(args.filters[1].specifiers) = 2
    /\ ~Search(args.filters[1].specifiers[1], args.problems[2].module)

\* C15: a configuration whose filters name an identifier no check class
\* declares is not loaded, the process ends with an error before run_all is
\* called on any topology.
C15_UnknownIdentifierIsFatal ==
    (\E k \in 1..Len(args.doc) : args.doc[k].identifier \notin DOMAIN Severities) =>
        (pc # "loop" /\ log = <<>>)

\* the run of the checks on topology m passes: the check does not raise and
\* each problem it adds is removed by a filter
RunPasses(m) ==
    /\ ~Fails(ChecksOn(m)[1])
    /\ \A k \in 1..Len(args.models[m].does.adds) :
          \E f \in 1..Len(result) : RuleMatches(result[f], args.models[m].does.adds[k])

\* C16: when the configuration and every topology load, the process ends
\* after run_all was called once on every topology, in order, and it exits
\* with status 0 if and only if every one of these runs passed.
C16_EveryTopologyChecked ==
    (pc = "exited" /\ ~MainConfiguration.raised
        /\ \A m \in 1..Len(args.models) : args.models[m].loads) =>
        /\ log = [m \in 1..Len(args.models) |-> m]
        /\ ret = PyInt(0) <=> \A m \in 1..Len(args.models) : RunPasses(m)

\* the wired output ports of the reconciled topology, as <<component, port>>
WiredOutputs ==
    {v \in {Visits(model, 1)[k] : k \in 1..Len(Visits(model, 1))} :
        LET port == model[v[1]].ports[v[2]]
        IN  /\ Lower(port["_Port__direction"].s) = LowerOutput
            /\ ~IsNone(port["_Port__target_comp"])}

\* the target slots of the wired outputs, as <<component, port, index>>
TargetSlots ==
    {<<model[v[1]].ports[v[2]]["_Port__target_comp"],
       model[v[1]].ports[v[2]]["_Port__target_port"],
       model[v[1]].ports[v[2]]["_Port__target_num"]>> : v \in WiredOutputs}

\* the wired outputs that arrive at a slot
Arriving(slot) ==
    {v \in WiredOutputs :
        slot = <<model[v[1]].ports[v[2]]["_Port__target_comp"],
                 model[v[1]].ports[v[2]]["_Port__target_port"],
                 model[v[1]].ports[v[2]]["_Port__target_num"]>>}

\* the declared max_count of a slot's port
SlotMaxCount(slot) ==
    LET tc == CompByName(model, slot[1])
        tp == PortByName(model[tc].ports, slot[2], slot[3])
    IN  IF IsNone(model[tc].ports[tp]["_Port__max_number"]) THEN 1
        ELSE ToInt(model[tc].ports[tp]["_Port__max_number"])

\* the location string of a slot
SlotLocation(slot) ==
    TopName \o <<".">> \o slot[1].s \o <<".">> \o slot[2].s \o <<":", Digit(slot[3].n)>>

\* the array-port-collision problems located at a slot
CollisionsAt(slot) ==
    {k \in 1..Len(result) :
        /\ result[k].identifier = "array-port-collision"
        /\ result[k].module = SlotLocation(slot)}

\* C17: after PortCollision has run, a slot with max_count > 1 at which two
\* or more wired outputs arrive has exactly one array-port-collision problem,
\* and a slot with max_count <= 1 has none.
C17_OneCollisionPerSlot ==
    pc = "collision_checked" =>
        \A slot \in TargetSlots :
            /\ (SlotMaxCount(slot) > 1 /\ Cardinality(Arriving(slot)) >= 2)
                  => Cardinality(CollisionsAt(slot)) = 1
            /\ SlotMaxCount(slot) <= 1 => CollisionsAt(slot) = {}

\* the ports of the reconciled topology, as <<component, port>>
AllPorts == {Visits(model, 1)[k] : k \in 1..Len(Visits(model, 1))}
PortAt(v) == model[v[1]].ports[v[2]]

\* the problems PortConnections added for a port, and their identifiers
ProblemsFor(v) == {k \in 1..Len(result) : log[k] = v}
ReportedFor(v) == {result[k].identifier : k \in ProblemsFor(v)}

\* the port has no target component: unset or empty
Unwired(v) ==
    \/ IsNone(PortAt(v)["_Port__target_comp"])
    \/ PortAt(v)["_Port__target_comp"] = PyStr(<<>>)

\* C18: after PortConnections has run, every port without a target component
\* has exactly one problem, port-not-connected of severity Warning.
C18_UnwiredPortWarned ==
    pc = "connections_checked" =>
        \A v \in AllPorts :
            Unwired(v) =>
                /\ Cardinality(ProblemsFor(v)) = 1
                /\ \A k \in ProblemsFor(v) :
                      /\ result[k].identifier = "port-not-connected"
                      /\ result[k].severity = WARNING

\* C18 witness: PortConnections ran on a topology that has a port whose
\* target component is unset, a port whose target component is the empty
\* name, and a wired port
C18_Witness ==
    /\ pc = "connections_checked"
    /\ \E u, v, w \in AllPorts :
          /\ IsNone(PortAt(u)["_Port__target_comp"])
          /\ PortAt(v)["_Port__target_comp"] = PyStr(<<>>)
          /\ ~Unwired(w)

\* the target port of a wired port whose target resolves within bounds, as
\* <<component, port>>; <<0, 0>> when it does not resolve
Resolved(v) ==
    LET named == {i \in 1..Len(model) :
                     model[i].attrs["_Component__name"] = PortAt(v)["_Port__target_comp"]}
        found == {w \in AllPorts :
                     /\ w[1] \in named
                     /\ PortAt(w)["_Port__pname"] = PortAt(v)["_Port__target_port"]
                     /\ PortAt(w)["_Port__source_num"] = PortAt(v)["_Port__target_num"]}
        first == CHOOSE w \in found : \A x \in found : w[2] <= x[2]
        count == IF IsNone(PortAt(first)["_Port__max_number"]) THEN 1
                 ELSE ToInt(PortAt(first)["_Port__max_number"])
    IN  IF Unwired(v) \/ Cardinality(named) # 1 \/ found = {} THEN <<0, 0>>
        ELSE IF PortAt(v)["_Port__target_num"].n >= count THEN <<0, 0>>
        ELSE first

\* the data type and the role of a port
TypeOf(v) == PortAt(v)["_Port__ptype"].s
RoleOf(v) == Lower(PortAt(v)["_Port__direction"].s)

\* C19: after PortConnections has run, a wired port whose target resolves
\* within bounds has the problem conflicting-port-types-in-connection, of
\* severity Error, if and only if its type differs from the target port's
\* type and neither type is Serial.
C19_TypeConflictIffDifferent ==
    pc = "connections_checked" =>
        \A v \in AllPorts :
            Resolved(v) # <<0, 0>> =>
                /\ ("conflicting-port-types-in-connection" \in ReportedFor(v)
                      <=> (/\ TypeOf(v) # TypeOf(Resolved(v))
                           /\ TypeOf(v) # SerialStr
                           /\ TypeOf(Resolved(v)) # SerialStr))
                /\ \A k \in ProblemsFor(v) :
                      result[k].identifier = "conflicting-port-types-in-connection"
                          => result[k].severity = ERROR

\* C19 witness: PortConnections ran on a topology with a port wired to a
\* port of another type, a port wired to a Serial port, and a port wired to
\* a port of its own type
C19_Witness ==
    /\ pc = "connections_checked"
    /\ \E u, v, w \in AllPorts :
          /\ Resolved(u) # <<0, 0>> /\ Resolved(v) # <<0, 0>> /\ Resolved(w) # <<0, 0>>
          /\ "conflicting-port-types-in-connection" \in ReportedFor(u)
          /\ TypeOf(v) # SerialStr /\ TypeOf(Resolved(v)) = SerialStr
          /\ TypeOf(w) = TypeOf(Resolved(w))

\* C20: after PortConnections has run, a wired port whose target resolves
\* within bounds and whose role is the role of its target port has the
\* problem conflicting-port-directions-in-connection, of severity Error.
C20_EqualRolesReported ==
    pc = "connections_checked" =>
        \A v \in AllPorts :
            (Resolved(v) # <<0, 0>> /\ RoleOf(v) = RoleOf(Resolved(v))) =>
                \E k \in ProblemsFor(v) :
                    /\ result[k].identifier = "conflicting-port-directions-in-connection"
                    /\ result[k].severity = ERROR

\* the component XML declares the slot (name, index)
DeclaresSlot(name, index) ==
    \E d \in 1..Len(xml.decl) :
        /\ xml.decl[d]["_Port__pname"] = PyStr(name)
        /\ index < ToInt(xml.decl[d]["_Port__max_number"])

\* the ports of the reconciled topology that are the source end of a connection
SourcePortsOf(c) ==
    {v \in AllPorts :
        /\ model[v[1]].attrs["_Component__name"] = PyStr(c.source[1])
        /\ PortAt(v)["_Port__pname"] = PyStr(c.source[2])
        /\ PortAt(v)["_Port__source_num"] = PyInt(c.source[4])
        /\ PortAt(v)["_Port__target_comp"] = PyStr(c.target[1])
        /\ PortAt(v)["_Port__target_port"] = PyStr(c.target[2])
        /\ PortAt(v)["_Port__target_num"] = PyInt(c.target[4])}

\* C30: after PortConnections has run on the reconciled topology, the
\* source port of every connection whose target component is instantiated
\* and whose target slot the component XML does not declare has the problem
\* invalid-target-port-in-connection.
C30_UndeclaredTargetReported ==
    pc = "connections_checked" =>
        \A k \in 1..Len(xml.connections) :
            LET c == xml.connections[k]
            IN  (Named(c.target[1]) # {} /\ ~DeclaresSlot(c.target[2], c.target[4])) =>
                    \A v \in SourcePortsOf(c) :
                        "invalid-target-port-in-connection" \in ReportedFor(v)

---------------------------------------------------------------------------
(* The contract of CommandPorts, stated on the topology it is given.       *)

\* the ports of component ci that have the type of a command role and the
\* direction expected of it
RolePorts(ci, role) ==
    {pi \in 1..Len(model[ci].ports) :
        LET port == model[ci].ports[pi]
        IN  /\ port["_Port__ptype"] = PyStr(role)
            /\ IsStr(port["_Port__direction"])
            /\ Lower(port["_Port__direction"].s) = CmdTypes[role]}

\* those of them that are wired to a target of the role's type or of the
\* wildcard type
Collected(ci, role) ==
    {pi \in RolePorts(ci, role) :
        LET port == model[ci].ports[pi]
        IN  /\ ~IsNone(port["_Port__target_comp"])
            /\ ~IsNone(port["_Port__target_port"])
            /\ port["_Port__target_type"] \in {PyStr(role), PyStr(SerialStr)}}

\* the target index observed for a role of component ci, "n/a" when no port
\* of the role is collected
Observed(ci, role) ==
    IF Collected(ci, role) = {} THEN NotApplicable
    ELSE LET last == CHOOSE pi \in Collected(ci, role) : \A qi \in Collected(ci, role) : qi <= pi
         IN  model[ci].ports[last]["_Port__target_num"]

\* the problems command-ports-not-parallel reported for component ci
NotParallelAt(ci) ==
    {j \in 1..Len(result) :
        /\ result[j].identifier = "command-ports-not-parallel"
        /\ result[j].module = StandardIdentifier(<<TopName>>, <<model[ci]>>, <<>>)}

---------------------------------------------------------------------------
(* The contract of HubLinter, stated on the caller's topology, the remote  *)
(* topology XML and the topology the check leaves behind.                  *)

\* the run of the hub check has ended, by a return or by an exception
HubDone == pc \in {"hub_returned", "hub_raised"}

\* the caller's topology, its component list before the check, and the
\* combined component list the check has built
LocalBefore == heap[1].comps
HubCombined == Len(heap) = 2 /\ heap[2].name = CombinedName
AfterFusion == heap[2].comps

\* C22: a run of the hub check, whether it returns or fails, leaves the
\* caller's topology as it was: its name, its component list and every
\* attribute of every port, the target references included.
C22_CallerTopologyUntouched ==
    [][heap'[1] = heap[1] /\ model' = model]_vars

\* the check has ended after it has renamed its own copy of the topology and
\* rewritten the target reference of one of the copy's ports
C22_Witness ==
    /\ HubDone
    /\ HubCombined
    /\ heap[1].name = TopName
    /\ model = heap[1].comps
    /\ \E ci \in 1..Len(LocalBefore) : \E pi \in 1..Len(LocalBefore[ci].ports) :
          AfterFusion[ci].ports[pi]["_Port__target_comp"]
              # LocalBefore[ci].ports[pi]["_Port__target_comp"]

\* the aligned pairs of hub ports, in the order the check has visited them,
\* each with the two hub ports and the port attached to either of them, as
\* they were before the fusion
HubPairs == log

\* a pair's side is attached
LocalIsAttached(t) == t.local_comp_port # <<>>
RemoteIsAttached(t) == t.remote_comp_port # <<>>

\* the hub ports of a pair and the ports attached to them, before the fusion
LocalHubPort(t) == t.local_hub_port[1]
RemoteHubPort(t) == t.remote_hub_port[1]
LocalAttached(t) == t.local_comp_port[1]
RemoteAttached(t) == t.remote_comp_port[1]

\* the identifiers of the alignment problems
AlignmentIdentifiers ==
    {"hub-unused-ports-not-parallel", "hub-ports-unused", "hub-ports-not-connected",
     "hub-ports-not-parallel", "hub-port-directions-not-parallel"}

\* the first alignment condition that applies to a pair, "" when none does
FirstApplicable(t) ==
    CASE LocalHubPort(t)["_Port__source_num"] # RemoteHubPort(t)["_Port__source_num"]
            -> "hub-unused-ports-not-parallel"
      [] OTHER ->
    CASE ~LocalIsAttached(t) /\ ~RemoteIsAttached(t) -> "hub-ports-unused"
      [] ~LocalIsAttached(t) /\ RemoteIsAttached(t) -> "hub-ports-not-connected"
      [] LocalIsAttached(t) /\ ~RemoteIsAttached(t) -> "hub-ports-not-connected"
      [] OTHER ->
    CASE LocalAttached(t)["_Port__ptype"] # RemoteAttached(t)["_Port__ptype"]
            -> "hub-ports-not-parallel"
      [] OTHER ->
    IF LocalHubPort(t)["_Port__direction"] = RemoteHubPort(t)["_Port__direction"]
    THEN "hub-port-directions-not-parallel"
    ELSE IF LocalAttached(t)["_Port__direction"] = RemoteAttached(t)["_Port__direction"]
    THEN "hub-port-directions-not-parallel"
    ELSE ""

\* the alignment problems the check has recorded, in order
AlignmentProblems ==
    SelectSeq(result, LAMBDA problem : problem.identifier \in AlignmentIdentifiers)

LocalHubAfter(t) ==
    AfterFusion[CompByName(LocalBefore, args.local_hub_name)].ports[t.places.local_hub_port]
LocalAttachedAfter(t) ==
    AfterFusion[t.places.local_comp_port[1]].ports[t.places.local_comp_port[2]]
RemoteComps == SubSeq(AfterFusion, Len(LocalBefore) + 1, Len(AfterFusion))
RemoteHubAfter(t) ==
    RemoteComps[CompByName(RemoteComps, args.remote_hub_name)].ports[t.places.remote_hub_port]
RemoteAttachedAfter(t) ==
    RemoteComps[t.places.remote_comp_port[1]].ports[t.places.remote_comp_port[2]]

\* the target reference of a port denotes the port other of the component
\* owner: component, name, index, type and role
Denotes(port, owner, other) ==
    /\ port["_Port__target_comp"] = owner.attrs["_Component__name"]
    /\ port["_Port__target_port"] = other["_Port__pname"]
    /\ port["_Port__target_num"] = other["_Port__source_num"]
    /\ port["_Port__target_type"] = other["_Port__ptype"]
    /\ IsStr(port["_Port__target_direction"])
    /\ IsStr(other["_Port__direction"])
    /\ Lower(port["_Port__target_direction"].s) = Lower(other["_Port__direction"].s)

\* a port has no target
Untargeted(port) == \A attr \in TargetAttrs : IsNone(port[attr])

\* C24: after the fusion, for every aligned pair both of whose hub ports are
\* attached, the target reference of the local attached port denotes the
\* remote attached port, that of the remote attached port denotes the local
\* attached port, and neither hub port has a target.
C24_FusedPairsPointAtEachOther ==
    HubCombined =>
        \A k \in 1..Len(HubPairs) :
            LET t == HubPairs[k]
            IN  (LocalIsAttached(t) /\ RemoteIsAttached(t)) =>
                    /\ Denotes(LocalAttachedAfter(t),
                               RemoteComps[t.places.remote_comp_port[1]], RemoteAttached(t))
                    /\ Denotes(RemoteAttachedAfter(t),
                               AfterFusion[t.places.local_comp_port[1]], LocalAttached(t))
                    /\ Untargeted(LocalHubAfter(t))
                    /\ Untargeted(RemoteHubAfter(t))

\* the problems of the result that are not alignment problems, in order
DelegatedProblems ==
    SelectSeq(result, LAMBDA problem : problem.identifier \notin AlignmentIdentifiers)

\* the problems PortCollision and CommandPorts find in the combined topology,
\* each with the severity its check declares for it
FoundByDelegates ==
    LET collisions == CollisionFrom(AfterFusion, Visits(AfterFusion, 1), 1, {}, <<>>).problems
        commands == CommandPortsChecked(AfterFusion).problems
    IN  [k \in 1..Len(collisions) |->
            [identifier |-> collisions[k].identifier,
             severity |-> CollisionSeverities[collisions[k].identifier]]]
        \o [k \in 1..Len(commands) |->
               [identifier |-> commands[k].identifier,
                severity |-> CommandSeverities[commands[k].identifier]]]

\* C25: every problem of a hub result has an identifier that starts with
\* hub- and is declared by the hub check; when the check returns, the
\* problems the delegated checks find in the combined topology are recorded,
\* in order, under hub- followed by the delegate's identifier and with the
\* severity the delegate declares for it.
C25_DelegatesReportInHubNamespace ==
    /\ HubDone =>
          \A k \in 1..Len(result) :
              /\ result[k].identifier \in DOMAIN HubSeverities
              /\ SubSeq(result[k].identifier, 1, 4) = "hub-"
    /\ pc = "hub_returned" =>
          /\ Len(DelegatedProblems) = Len(FoundByDelegates)
          /\ \A k \in 1..Len(DelegatedProblems) :
                /\ DelegatedProblems[k].identifier = "hub-" \o FoundByDelegates[k].identifier
                /\ DelegatedProblems[k].severity = FoundByDelegates[k].severity

\* a returned run in which the collision delegate has reported an error and
\* the command-port delegate a warning
C25_Witness ==
    /\ pc = "hub_returned"
    /\ \E k \in 1..Len(result) :
          /\ result[k].identifier = "hub-array-port-collision"
          /\ result[k].severity = ERROR
    /\ \E k \in 1..Len(result) :
          /\ result[k].identifier = "hub-port-not-connected"
          /\ result[k].severity = WARNING

\* the hub names the call is given: extras of a direct call, options of the
\* command line of a call by run_all
GivenHubNames ==
    IF pc \in {"hub", "hub_returned", "hub_raised"}
    THEN [local |-> args.local_hub_name, remote |-> args.remote_hub_name]
    ELSE [local |-> args.arguments.dict[Chars("hub_local_hub_name")],
          remote |-> args.arguments.dict[Chars("hub_remote_hub_name")]]

\* the local topology, or the remote topology XML, has no component of the
\* hub name given for it
HubComponentMissing ==
    \/ \A ci \in 1..Len(LocalBefore) :
          LocalBefore[ci].attrs["_Component__name"] # GivenHubNames.local
    \/ \A k \in 1..Len(xml.instances) : PyStr(xml.instances[k].name) # GivenHubNames.remote

\* C26: when the local or the remote hub component is missing, the hub check
\* ends with an exception and without a problem; run_all records the failure
\* of the check without a problem, is no longer all clear, goes on to the
\* checks registered after it and returns False.
C26_MissingHubFailsTheCheckOnly ==
    /\ (HubDone /\ HubComponentMissing) => (pc = "hub_raised" /\ result = <<>>)
    /\ (pc \in {"run_all", "returned"} /\ ~args.arguments.none /\ HubComponentMissing) =>
          /\ ix > 1 =>
                /\ log[1] = [name |-> "HubLinter", what |-> "raise", problems |-> <<>>]
                /\ ~all_clear
          /\ ix = 2 => result = <<>>
          /\ pc = "returned" =>
                /\ ret = PyBool(FALSE)
                /\ Len(log) = 2
                /\ log[2].name = "B"
                /\ log[2].what = "run"

\* run_all has returned after the hub check failed for a missing remote hub
\* component and the next check has run
C26_Witness ==
    /\ pc = "returned"
    /\ ~args.arguments.none
    /\ \A k \in 1..Len(xml.instances) : PyStr(xml.instances[k].name) # GivenHubNames.remote
    /\ \E ci \in 1..Len(LocalBefore) :
          LocalBefore[ci].attrs["_Component__name"] = GivenHubNames.local
    /\ Len(log) = 2
    /\ log[1].what = "raise"
    /\ log[2].what = "run"
    /\ ret = PyBool(FALSE)

\* the target reference of a port
TargetOf(port) == [attr \in TargetAttrs |-> port[attr]]

\* both hub ports of a pair are attached
BothAttached(t) == LocalIsAttached(t) /\ RemoteIsAttached(t)

\* the ports of a pair on either side, by their places: the hub port and the
\* port attached to it
LocalPlaces(t) ==
    {<<CompByName(LocalBefore, args.local_hub_name), t.places.local_hub_port>>}
    \cup (IF LocalIsAttached(t) THEN {t.places.local_comp_port} ELSE {})
RemotePlaces(t) ==
    {<<CompByName(RemoteComps, args.remote_hub_name), t.places.remote_hub_port>>}
    \cup (IF RemoteIsAttached(t) THEN {t.places.remote_comp_port} ELSE {})

\* the ports that belong to a pair with both sides attached
FusedLocalPlaces == UNION {LocalPlaces(HubPairs[k]) : k \in {j \in 1..Len(HubPairs) : BothAttached(HubPairs[j])}}
FusedRemotePlaces == UNION {RemotePlaces(HubPairs[k]) : k \in {j \in 1..Len(HubPairs) : BothAttached(HubPairs[j])}}

\* C27: the fusion leaves the target reference of the ports of a pair as it
\* was unless both hub ports of the pair are attached: a hub port or an
\* attached port of a pair with an unattached side, which belongs to no pair
\* with both sides attached, has after the fusion the target it had before.
C27_FusionOnlyWhereBothAttached ==
    HubCombined =>
        \A k \in 1..Len(HubPairs) :
            LET t == HubPairs[k]
            IN  ~BothAttached(t) =>
                    /\ TargetOf(LocalHubAfter(t)) = TargetOf(LocalHubPort(t))
                          \/ <<CompByName(LocalBefore, args.local_hub_name),
                               t.places.local_hub_port>> \in FusedLocalPlaces
                    /\ TargetOf(RemoteHubAfter(t)) = TargetOf(RemoteHubPort(t))
                          \/ <<CompByName(RemoteComps, args.remote_hub_name),
                               t.places.remote_hub_port>> \in FusedRemotePlaces
                    /\ LocalIsAttached(t) =>
                          \/ TargetOf(LocalAttachedAfter(t)) = TargetOf(LocalAttached(t))
                          \/ t.places.local_comp_port \in FusedLocalPlaces
                    /\ RemoteIsAttached(t) =>
                          \/ TargetOf(RemoteAttachedAfter(t)) = TargetOf(RemoteAttached(t))
                          \/ t.places.remote_comp_port \in FusedRemotePlaces

\* the names of the components of a component list are pairwise different
UniqueNames(comps) ==
    \A i \in 1..Len(comps) : \A j \in 1..Len(comps) :
        i # j => comps[i].attrs["_Component__name"] # comps[j].attrs["_Component__name"]

\* C28: the combined topology the hub check builds from a local and a remote
\* topology has pairwise different component names, so that no lookup of a
\* component by name finds several.
C28_CombinedNamesUnique ==
    HubCombined =>
        /\ UniqueNames(AfterFusion)
        /\ \A ci \in 1..Len(AfterFusion) :
              ~CompByNameRaises(AfterFusion, AfterFusion[ci].attrs["_Component__name"])

\* C29: no result of the hub check holds a problem
\* hub-unused-ports-not-parallel: the two hub ports of an aligned pair always
\* have the same index.
C29_NeverUnusedPortsNotParallel ==
    /\ \A k \in 1..Len(result) : result[k].identifier # "hub-unused-ports-not-parallel"
    /\ HubCombined =>
          \A k \in 1..Len(HubPairs) :
              LocalHubPort(HubPairs[k])["_Port__source_num"]
                  = RemoteHubPort(HubPairs[k])["_Port__source_num"]

\* a returned run over the pairs of a local hub whose port list holds the
\* slot 1 of portOut before the slot 0
C29_Witness ==
    /\ pc = "hub_returned"
    /\ Len(HubPairs) = 6
    /\ LET hub == LocalBefore[CompByName(LocalBefore, args.local_hub_name)]
       IN  \E i \in 1..Len(hub.ports) : \E j \in 1..Len(hub.ports) :
              /\ i < j
              /\ hub.ports[i]["_Port__pname"] = PyStr(PortOutStr)
              /\ hub.ports[j]["_Port__pname"] = PyStr(PortOutStr)
              /\ hub.ports[i]["_Port__source_num"] = PyInt(1)
              /\ hub.ports[j]["_Port__source_num"] = PyInt(0)

=============================================================================
